---- MODULE Spec2Model ----
(***************************************************************************)
(* Disc Golf Course Finder: the client-side geo-search and result          *)
(* reconciliation logic of the four application variants                   *)
(*   "App"       src/disc-golf-course-finder/src/App.tsx (Overpass,        *)
(*               loadNearby with the St. Louis fallback)                   *)
(*   "Nominatim" src/unnamed/part_002 (Overpass + Nominatim geocoding)     *)
(*   "Leaflet"   src/unnamed/part_003 (Overpass + Nominatim + Leaflet map) *)
(*   "Places"    src/unnamed/part_001 (Google Maps + Places)               *)
(* and of the stand-alone fetcher draft appended to src/unnamed/part_000.  *)
(*                                                                         *)
(* Conventions.                                                            *)
(*  - A JavaScript string that the code inspects or concatenates is a      *)
(*    sequence of one-character strings; opaque texts (descriptions,       *)
(*    messages) are TLA+ strings.                                          *)
(*  - undefined/null is None == <<>>, a present value v is Some(v) ==      *)
(*    <<v>>.  NaN is None for a JavaScript number that may be NaN.         *)
(*  - Latitudes and longitudes are integers in millidegrees; ratings are   *)
(*    integers in tenths (4.5 is 45).                                      *)
(***************************************************************************)
EXTENDS Integers, Sequences, FiniteSets, TLC

None == <<>>
Some(x) == <<x>>
IsSome(o) == Len(o) > 0
IsNone(o) == Len(o) = 0
Get(o) == o[1]

\* a ?? b
Coalesce(a, b) == IF IsSome(a) THEN a ELSE b

\* a ?? lit in the place of a || lit: the empty text is kept
OrStrNullish(a, lit) == IF IsSome(a) THEN Get(a) ELSE lit

\* a || lit, for an optional string a: undefined and "" are falsy
OrStr(a, lit) == IF IsSome(a) /\ Len(Get(a)) > 0 THEN Get(a) ELSE lit

\* a || b || ... for optional strings, still optional
OrOpt(a, b) == IF IsSome(a) /\ Len(Get(a)) > 0 THEN a ELSE b

\* truthiness of an optional number: undefined and 0 are falsy
TruthyNum(o) == IsSome(o) /\ Get(o) # 0

Last(s) == s[Len(s)]

(***************************************************************************)
(* Number -> string and string -> Number                                   *)
(***************************************************************************)
DigitChars == <<"0", "1", "2", "3", "4", "5", "6", "7", "8", "9">>

IsDigit(c) == \E d \in 1..10 : DigitChars[d] = c

DigitVal(c) == (CHOOSE d \in 1..10 : DigitChars[d] = c) - 1

RECURSIVE NatToString(_)
NatToString(n) ==
  IF n < 10 THEN <<DigitChars[n + 1]>>
  ELSE NatToString(n \div 10) \o <<DigitChars[(n % 10) + 1]>>

\* String(n) for an integer n
StringOf(n) == IF n < 0 THEN <<"-">> \o NatToString(0 - n) ELSE NatToString(n)

RECURSIVE DigitsValue(_, _)
DigitsValue(s, acc) ==
  IF Len(s) = 0 THEN acc ELSE DigitsValue(Tail(s), acc * 10 + DigitVal(Head(s)))

AllDigits(s) == \A i \in 1..Len(s) : IsDigit(s[i])

RECURSIVE TrimLeft(_)
TrimLeft(s) == IF Len(s) > 0 /\ Head(s) = " " THEN TrimLeft(Tail(s)) ELSE s

RECURSIVE TrimRight(_)
TrimRight(s) ==
  IF Len(s) > 0 /\ Last(s) = " " THEN TrimRight(SubSeq(s, 1, Len(s) - 1)) ELSE s

\* String.prototype.trim
Trim(s) == TrimRight(TrimLeft(s))

\* a whole number as a Number: Numbers that may carry a decimal (ratings,
\* hole counts) are counted in tenths
Whole(n) == n * 10

\* the place of the first "." of s, 0 when there is none
DotAt(s) ==
  IF \E i \in 1..Len(s) : s[i] = "."
  THEN CHOOSE i \in 1..Len(s) : s[i] = "." /\ \A j \in 1..(i - 1) : s[j] # "."
  ELSE 0

\* a conversion that takes the empty and the blank text for no number
ToNumberBlankNaN(o) ==
  IF IsNone(o) THEN None
  ELSE LET t == Trim(Get(o))
           signed == Len(t) > 0 /\ Head(t) \in {"-", "+"}
           body == IF signed THEN Tail(t) ELSE t
           whole == IF DotAt(body) = 0 THEN body ELSE SubSeq(body, 1, DotAt(body) - 1)
           frac == IF DotAt(body) = 0 THEN <<>>
                   ELSE SubSeq(body, DotAt(body) + 1, Len(body))
           size == Whole(DigitsValue(whole, 0))
                     + (IF Len(frac) > 0 THEN DigitVal(frac[1]) ELSE 0)
       IN  IF AllDigits(whole) /\ AllDigits(frac) /\ Len(whole) + Len(frac) > 0
           THEN Some(IF signed /\ Head(t) = "-" THEN 0 - size ELSE size)
           ELSE None

\* Number(x) for an optional string x, in tenths; None is NaN.
\* Number(undefined) is NaN, Number("") and Number("  ") are 0, an
\* optionally signed decimal numeral ("9", "-3", "4.5", ".5", "5.") is its
\* value, anything else is NaN.  The texts of the model carry at most one
\* decimal.
ToNumber(o) ==
  IF IsNone(o) THEN None
  ELSE LET t == Trim(Get(o))
           signed == Len(t) > 0 /\ Head(t) \in {"-", "+"}
           body == IF signed THEN Tail(t) ELSE t
           whole == IF DotAt(body) = 0 THEN body ELSE SubSeq(body, 1, DotAt(body) - 1)
           frac == IF DotAt(body) = 0 THEN <<>>
                   ELSE SubSeq(body, DotAt(body) + 1, Len(body))
           size == Whole(DigitsValue(whole, 0))
                     + (IF Len(frac) > 0 THEN DigitVal(frac[1]) ELSE 0)
       IN  IF Len(t) = 0 THEN Some(0)
           ELSE IF AllDigits(whole) /\ AllDigits(frac) /\ Len(whole) + Len(frac) > 0
                THEN Some(IF signed /\ Head(t) = "-" THEN 0 - size ELSE size)
                ELSE None

RECURSIVE DigitPrefix(_)
DigitPrefix(s) ==
  IF Len(s) > 0 /\ IsDigit(Head(s)) THEN <<Head(s)>> \o DigitPrefix(Tail(s)) ELSE <<>>

\* parseFloat(s): leading blanks are skipped, then the longest optionally
\* signed run of digits is read; None (NaN) when there is no digit.
ParseFloat(s) ==
  LET t == TrimLeft(s)
      signed == Len(t) > 0 /\ Head(t) \in {"-", "+"}
      digits == DigitPrefix(IF signed THEN Tail(t) ELSE t)
  IN  IF Len(digits) = 0 THEN None
      ELSE Some(IF signed /\ Head(t) = "-" THEN 0 - DigitsValue(digits, 0)
                                            ELSE DigitsValue(digits, 0))

\* encodeURIComponent on the alphabet of the model
EncodeChar(c) ==
  CASE c = " " -> <<"%", "2", "0">>
    [] c = "," -> <<"%", "2", "C">>
    [] OTHER   -> <<c>>

RECURSIVE EncodeURIComponent(_)
EncodeURIComponent(s) ==
  IF Len(s) = 0 THEN <<>> ELSE EncodeChar(Head(s)) \o EncodeURIComponent(Tail(s))

(***************************************************************************)
(* The static seed list                                                    *)
(***************************************************************************)
SeedCourse(id, name, city, level, rating, topPick) ==
  [id |-> <<"#">> \o StringOf(id), name |-> name, city |-> city, difficulty |-> level,
   rating |-> rating, holes |-> Whole(18), description |-> "seed", topPick |-> topPick,
   mapUrl |-> [kind |-> "embed", lat |-> None, lon |-> None, text |-> StringOf(id)],
   lat |-> None, lon |-> None]

COURSES ==
  << SeedCourse(1, <<"R", "i", "v", "e", "r", "s", "i", "d", "e", " ", "D", "G", "C">>,
                <<"W", "a", "s", "h", "i", "n", "g", "t", "o", "n", ",", " ", "M", "O">>,
                "Beginner", 44, TRUE),
     SeedCourse(2, <<"C", "r", "e", "v", "e", " ", "C", "o", "e", "u", "r", " ", "L", "a",
                  "k", "e", " ", "P", "a", "r", "k", " ", "D", "G", "C">>,
                <<"M", "a", "r", "y", "l", "a", "n", "d", " ", "H", "e", "i", "g", "h", "t",
                  "s", ",", " ", "M", "O">>,
                "Intermediate", 46, TRUE),
     SeedCourse(3, <<"J", "e", "f", "f", "e", "r", "s", "o", "n", " ", "B", "a", "r", "r",
                  "a", "c", "k", "s", " ", "D", "G", "C">>,
                <<"S", "t", ".", " ", "L", "o", "u", "i", "s", ",", " ", "M", "O">>,
                "Advanced", 47, FALSE),
     SeedCourse(4, <<"L", "o", "g", "a", "n", " ", "U", "n", "i", "v", "e", "r", "s", "i",
                  "t", "y", " ", "D", "G", "C">>,
                <<"C", "h", "e", "s", "t", "e", "r", "f", "i", "e", "l", "d", ",", " ", "M",
                  "O">>,
                "Intermediate", 45, FALSE),
     SeedCourse(5, <<"C", "a", "r", "r", "o", "l", "l", "t", "o", "n", " ", "P", "a", "r",
                  "k", " ", "D", "G", "C">>,
                <<"B", "r", "i", "d", "g", "e", "t", "o", "n", ",", " ", "M", "O">>,
                "Beginner", 42, FALSE) >>

(***************************************************************************)
(* Geo-normalization of one Overpass element                               *)
(***************************************************************************)
DefaultName == <<"D", "i", "s", "c", " ", "G", "o", "l", "f", " ", "C", "o", "u", "r", "s", "e">>

DraftDefaultName ==
  <<"U", "n", "n", "a", "m", "e", "d", " ", "D", "i", "s", "c", " ", "G", "o", "l", "f", " ",
    "C", "o", "u", "r", "s", "e">>

UnknownCity == <<"U", "n", "k", "n", "o", "w", "n">>

DefaultHoles == 18

DefaultRating == 45

\* el.tags?.f
Tag(el, f) == IF IsSome(el.tags) THEN Get(el.tags)[f] ELSE None

\* el.lat ?? el.center?.lat
ElemLat(el) == Coalesce(el.lat, IF IsSome(el.center) THEN Get(el.center).lat ELSE None)

ElemLon(el) == Coalesce(el.lon, IF IsSome(el.center) THEN Get(el.center).lon ELSE None)

\* the city tags looked up in the opposite order
ElemCityLastFirst(el) ==
  OrStr(OrOpt(Tag(el, "addr_city"), OrOpt(Tag(el, "city"), Tag(el, "addrcity"))),
        UnknownCity)

\* el.tags?.['addr:city'] || el.tags?.city || el.tags?.addr_city || 'Unknown'
ElemCity(el) ==
  OrStr(OrOpt(Tag(el, "addrcity"), OrOpt(Tag(el, "city"), Tag(el, "addr_city"))),
        UnknownCity)

CoordsUrl(lat, lon) == [kind |-> "coords", lat |-> lat, lon |-> lon, text |-> <<>>]

SearchUrl(name, city) ==
  [kind |-> "search", lat |-> None, lon |-> None,
   text |-> EncodeURIComponent(name \o <<",", " ">> \o city)]

\* the callback of elements.map; idx is the zero-based position
NormalizeElement(el, idx) ==
  LET lat == ElemLat(el)
      lon == ElemLon(el)
      name == OrStr(Tag(el, "name"), DefaultName)
      city == ElemCity(el)
      holesTag == ToNumber(Tag(el, "holes"))
  IN  [id |-> StringOf(IF IsSome(el.id) THEN Get(el.id) ELSE idx),
       name |-> name,
       city |-> city,
       difficulty |-> "Intermediate",
       rating |-> DefaultRating,
       holes |-> IF IsSome(holesTag) THEN Get(holesTag) ELSE Whole(DefaultHoles),
       description |-> IF IsSome(Tag(el, "description")) /\ Get(Tag(el, "description")) # ""
                       THEN Get(Tag(el, "description"))
                       ELSE "Disc golf course (OpenStreetMap)",
       topPick |-> FALSE,
       mapUrl |-> IF TruthyNum(lat) /\ TruthyNum(lon)
                  THEN CoordsUrl(lat, lon) ELSE SearchUrl(name, city),
       lat |-> lat,
       lon |-> lon]

\* the draft fetcher's callback: Number(holes) || 18, mapUrl always from lat/lon
DraftNormalizeElement(el, idx) ==
  LET lat == ElemLat(el)
      lon == ElemLon(el)
      holesTag == ToNumber(Tag(el, "holes"))
  IN  [id |-> StringOf(IF IsSome(el.id) THEN Get(el.id) ELSE idx),
       name |-> OrStr(Tag(el, "name"), DraftDefaultName),
       city |-> ElemCity(el),
       difficulty |-> "Intermediate",
       rating |-> DefaultRating,
       holes |-> IF TruthyNum(holesTag) THEN Get(holesTag) ELSE Whole(DefaultHoles),
       description |-> IF IsSome(Tag(el, "description")) /\ Get(Tag(el, "description")) # ""
                       THEN Get(Tag(el, "description"))
                       ELSE "Disc golf course (OSM)",
       topPick |-> FALSE,
       mapUrl |-> CoordsUrl(lat, lon),
       lat |-> lat,
       lon |-> lon]

\* elements.map((el, idx) => ...)
MapElements(elements) == [i \in 1..Len(elements) |-> NormalizeElement(elements[i], i - 1)]

DraftMapElements(elements) ==
  [i \in 1..Len(elements) |-> DraftNormalizeElement(elements[i], i - 1)]

(***************************************************************************)
(* The deduplicator                                                        *)
(***************************************************************************)
\* `${c.name}__${c.city}`
DedupeKey(c) == c.name \o <<"_", "_">> \o c.city

\* a filter that stops at the first repeated key: it drops that item and
\* keeps everything behind it
RECURSIVE DedupeFromOncePerPass(_, _)
DedupeFromOncePerPass(items, seen) ==
  IF Len(items) = 0 THEN <<>>
  ELSE IF DedupeKey(Head(items)) \in seen THEN Tail(items)
       ELSE <<Head(items)>>
              \o DedupeFromOncePerPass(Tail(items), seen \cup {DedupeKey(Head(items))})

RECURSIVE DedupeFrom(_, _)
DedupeFrom(items, seen) ==
  IF Len(items) = 0 THEN <<>>
  ELSE LET c == Head(items)
           key == DedupeKey(c)
       IN  IF key \in seen THEN DedupeFrom(Tail(items), seen)
           ELSE <<c>> \o DedupeFrom(Tail(items), seen \cup {key})

\* the fetcher with the filter left out
DedupeIdentity(items) == items

\* const seen = new Set(); return items.filter(...)
Dedupe(items) == DedupeFrom(items, {})

(***************************************************************************)
(* The bounding-box builder                                                *)
(***************************************************************************)
KmPerDegree == 111

\* a + b and a - b on numbers that may be NaN
NumAdd(a, b) == IF IsNone(a) \/ IsNone(b) THEN None ELSE Some(Get(a) + Get(b))

NumSub(a, b) == IF IsNone(a) \/ IsNone(b) THEN None ELSE Some(Get(a) - Get(b))

\* a builder that adds d where it should take it off, and the reverse
BboxAroundSwapped(lat, lon, radiusKm) ==
  LET d == Some((radiusKm * 1000) \div KmPerDegree)
  IN  [south |-> NumAdd(lat, d), west |-> NumAdd(lon, d),
       north |-> NumSub(lat, d), east |-> NumSub(lon, d)]

\* bboxAround(lat, lon, radiusKm): d = radiusKm / 111 degrees, in millidegrees
BboxAround(lat, lon, radiusKm) ==
  LET d == Some((radiusKm * 1000) \div KmPerDegree)
  IN  [south |-> NumSub(lat, d), west |-> NumSub(lon, d),
       north |-> NumAdd(lat, d), east |-> NumAdd(lon, d)]

DefaultRadiusKm == 50

\* the parameter list (lat, lon, radiusKm = 50): an omitted radius is None
BboxAroundOr(lat, lon, radiusKm) ==
  BboxAround(lat, lon, IF IsSome(radiusKm) THEN Get(radiusKm) ELSE DefaultRadiusKm)

StLouisLat == 38627

StLouisLon == -90199

(***************************************************************************)
(* The region query (Overpass)                                             *)
(*                                                                         *)
(* A response is [transport, ok, status, json, elements]: transport is     *)
(* FALSE when fetch() itself rejects, ok/status are res.ok/res.status,     *)
(* json tells whether res.json() parses, elements is data.elements.        *)
(***************************************************************************)
Thrown(error, status) == [ok |-> FALSE, items |-> <<>>, error |-> error, status |-> status]

Returned(items) == [ok |-> TRUE, items |-> items, error |-> "", status |-> 0]

\* fetchCoursesInBBox of App.tsx, part_002 and part_003, from the response on
FetchCoursesInBBox(resp) ==
  IF ~resp.transport THEN Thrown("TypeError: Failed to fetch", 0)
  ELSE IF ~resp.ok THEN Thrown("Overpass error", resp.status)
  ELSE IF ~resp.json THEN Thrown("SyntaxError", 0)
  ELSE Returned(Dedupe(MapElements(IF IsSome(resp.elements) THEN Get(resp.elements)
                                                             ELSE <<>>)))

\* fetchCoursesInBBox of the draft in part_000: res.ok is never looked at
DraftFetchCoursesInBBox(resp) ==
  IF ~resp.transport THEN Thrown("TypeError: Failed to fetch", 0)
  ELSE IF ~resp.json THEN Thrown("SyntaxError", 0)
  ELSE Returned(Dedupe(DraftMapElements(IF IsSome(resp.elements) THEN Get(resp.elements)
                                                                  ELSE <<>>)))

(***************************************************************************)
(* The place-name geocode (Nominatim)                                      *)
(*                                                                         *)
(* A response is [transport, ok, status, json, array, data]: array tells   *)
(* whether the parsed body is an array, data is the candidate list, each   *)
(* candidate [lat, lon] with string-encoded coordinates.                   *)
(***************************************************************************)
GeoThrown(error) == [thrown |-> TRUE, error |-> error, loc |-> None]

GeoReturned(loc) == [thrown |-> FALSE, error |-> "", loc |-> loc]

\* geocodePlace reading the last candidate instead of data[0]
GeocodePlaceLast(resp) ==
  IF ~resp.transport THEN GeoThrown("TypeError: Failed to fetch")
  ELSE IF ~resp.ok THEN GeoReturned(None)
  ELSE IF ~resp.json THEN GeoThrown("SyntaxError")
  ELSE IF ~resp.array \/ Len(resp.data) = 0 THEN GeoReturned(None)
  ELSE GeoReturned(Some([lat |-> ParseFloat(resp.data[Len(resp.data)].lat),
                         lon |-> ParseFloat(resp.data[Len(resp.data)].lon)]))

\* geocodePlace of part_002 and part_003: null is loc = None
GeocodePlace(resp) ==
  IF ~resp.transport THEN GeoThrown("TypeError: Failed to fetch")
  ELSE IF ~resp.ok THEN GeoReturned(None)
  ELSE IF ~resp.json THEN GeoThrown("SyntaxError")
  ELSE IF ~resp.array \/ Len(resp.data) = 0 THEN GeoReturned(None)
  ELSE GeoReturned(Some([lat |-> ParseFloat(resp.data[1].lat),
                         lon |-> ParseFloat(resp.data[1].lon)]))

(***************************************************************************)
(* The Places-backed variant: normalization and the provider callbacks     *)
(***************************************************************************)
TopPickReviews == 200

PlaceUrl(placeId) == [kind |-> "place", lat |-> None, lon |-> None, text |-> placeId]

HomeUrl == [kind |-> "home", lat |-> None, lon |-> None, text |-> <<>>]

\* placeToCourse with the top pick decided by the review count alone
PlaceToCourseByReviews(p, idx) ==
  LET lat == IF IsSome(p.geometry) THEN Some(Get(p.geometry).lat) ELSE None
      lon == IF IsSome(p.geometry) THEN Some(Get(p.geometry).lon) ELSE None
      rating == IF IsSome(p.rating) THEN Get(p.rating) ELSE DefaultRating
      hasId == IsSome(p.place_id) /\ Len(Get(p.place_id)) > 0
  IN  [id |-> IF hasId THEN Get(p.place_id) ELSE StringOf(idx),
       name |-> OrStr(p.name, DefaultName),
       city |-> OrStr(OrOpt(p.vicinity, p.formatted_address), UnknownCity),
       difficulty |-> "Intermediate",
       rating |-> rating,
       holes |-> Whole(DefaultHoles),
       description |-> IF IsSome(p.types) /\ "park" \in Get(p.types)
                       THEN "Disc golf course / park" ELSE "Disc golf course",
       topPick |-> TruthyNum(p.user_ratings_total)
                     /\ Get(p.user_ratings_total) > TopPickReviews,
       mapUrl |-> IF hasId THEN PlaceUrl(Get(p.place_id))
                  ELSE IF TruthyNum(lat) /\ TruthyNum(lon) THEN CoordsUrl(lat, lon)
                  ELSE HomeUrl,
       lat |-> lat,
       lon |-> lon,
       placeId |-> p.place_id]

\* placeToCourse(p, idx)
PlaceToCourse(p, idx) ==
  LET lat == IF IsSome(p.geometry) THEN Some(Get(p.geometry).lat) ELSE None
      lon == IF IsSome(p.geometry) THEN Some(Get(p.geometry).lon) ELSE None
      name == OrStr(p.name, DefaultName)
      city == OrStr(OrOpt(p.vicinity, p.formatted_address), UnknownCity)
      rating == IF IsSome(p.rating) THEN Get(p.rating) ELSE DefaultRating
      hasId == IsSome(p.place_id) /\ Len(Get(p.place_id)) > 0
  IN  [id |-> IF hasId THEN Get(p.place_id) ELSE StringOf(idx),
       name |-> name,
       city |-> city,
       difficulty |-> "Intermediate",
       rating |-> rating,
       holes |-> Whole(DefaultHoles),
       description |-> IF IsSome(p.types) /\ "park" \in Get(p.types)
                       THEN "Disc golf course / park" ELSE "Disc golf course",
       topPick |-> /\ TruthyNum(p.user_ratings_total)
                   /\ Get(p.user_ratings_total) > TopPickReviews
                   /\ rating >= DefaultRating,
       mapUrl |-> IF hasId THEN PlaceUrl(Get(p.place_id))
                  ELSE IF TruthyNum(lat) /\ TruthyNum(lon) THEN CoordsUrl(lat, lon)
                  ELSE HomeUrl,
       lat |-> lat,
       lon |-> lon,
       placeId |-> p.place_id]

\* a mapping that leaves out the places that carry no name
MapPlacesNamed(results) ==
  SelectSeq([i \in 1..Len(results) |-> PlaceToCourse(results[i], i - 1)],
            LAMBDA c : c.name # DefaultName)

\* results.map(placeToCourse)
MapPlaces(results) == [i \in 1..Len(results) |-> PlaceToCourse(results[i], i - 1)]

\* a callback that takes only OK for success
PlacesCallbackOkOnly(resp) ==
  IF resp.status = "OK"
  THEN Returned(MapPlaces(IF IsSome(resp.res) THEN Get(resp.res) ELSE <<>>))
  ELSE Thrown(resp.status, 0)

\* the nearbySearch / textSearch callback: resolve(res || []) or reject(status)
PlacesCallback(resp) ==
  IF resp.status \in {"OK", "ZERO_RESULTS"}
  THEN Returned(MapPlaces(IF IsSome(resp.res) THEN Get(resp.res) ELSE <<>>))
  ELSE Thrown(resp.status, 0)

\* the Geocoder callback: resolve(res[0]) or reject(status)
GeocoderCallback(resp) ==
  IF resp.status = "OK" /\ IsSome(resp.res) /\ Len(Get(resp.res)) > 0
  THEN GeoReturned(Some([lat |-> Some(Get(resp.res)[1].lat),
                         lon |-> Some(Get(resp.res)[1].lon)]))
  ELSE GeoThrown(resp.status)

\* Math.min(Math.max(dist, 500), 50000)
MinRadiusMeters == 500

MaxRadiusMeters == 50000

ClampRadius(dist) ==
  IF dist < MinRadiusMeters THEN MinRadiusMeters
  ELSE IF dist > MaxRadiusMeters THEN MaxRadiusMeters ELSE dist

(***************************************************************************)
(* Bounds and input pools                                                  *)
(***************************************************************************)
\* longest elements / results array of a response
MaxElems == 2

\* longest candidate list of a geocode response
MaxCandidates == 2

\* handler invocations in one run
MaxInvocations == 2

Variants == {"App", "Nominatim", "Leaflet", "Places"}

Overpass == {"App", "Nominatim", "Leaflet"}

HasFallback(v) == v \in {"App", "Nominatim"}

NoTags == [name |-> None, addrcity |-> None, city |-> None, addr_city |-> None,
           holes |-> None, description |-> None]

\* a node and a way of the same course (same name and city, other id and
\* coordinates), and an untagged element without id
RawPool ==
  { [id |-> Some(1), lat |-> Some(38558), lon |-> Some(-91020), center |-> None,
     tags |-> Some([NoTags EXCEPT !.name = Some(<<"R", "v">>),
                                  !.addrcity = Some(<<"W", "a">>)])],
    [id |-> Some(2), lat |-> None, lon |-> None,
     center |-> Some([lat |-> Some(38559), lon |-> Some(-91021)]),
     tags |-> Some([NoTags EXCEPT !.name = Some(<<"R", "v">>),
                                  !.city = Some(<<"W", "a">>)])],
    [id |-> None, lat |-> None, lon |-> None, center |-> None, tags |-> None] }

SeqsUpTo(S, n) == UNION {[1..k -> S] : k \in 0..n}

OverpassResponses ==
  { [transport |-> FALSE, ok |-> FALSE, status |-> 0, json |-> FALSE, elements |-> None],
    [transport |-> TRUE, ok |-> FALSE, status |-> 429, json |-> FALSE, elements |-> None],
    [transport |-> TRUE, ok |-> TRUE, status |-> 200, json |-> FALSE, elements |-> None],
    [transport |-> TRUE, ok |-> TRUE, status |-> 200, json |-> TRUE, elements |-> None] }
  \cup { [transport |-> TRUE, ok |-> TRUE, status |-> 200, json |-> TRUE,
          elements |-> Some(es)] : es \in SeqsUpTo(RawPool, MaxElems) }

CandidatePool ==
  { [lat |-> <<"3", "9", "1", "0", "0">>, lon |-> <<"-", "9", "4", "5", "7", "8">>],
    [lat |-> <<"n", "/", "a">>, lon |-> <<>>] }

GeocodeResponses ==
  { [transport |-> FALSE, ok |-> FALSE, status |-> 0, json |-> FALSE, array |-> FALSE,
     data |-> <<>>],
    [transport |-> TRUE, ok |-> FALSE, status |-> 503, json |-> FALSE, array |-> FALSE,
     data |-> <<>>],
    [transport |-> TRUE, ok |-> TRUE, status |-> 200, json |-> FALSE, array |-> FALSE,
     data |-> <<>>],
    [transport |-> TRUE, ok |-> TRUE, status |-> 200, json |-> TRUE, array |-> FALSE,
     data |-> <<>>] }
  \cup { [transport |-> TRUE, ok |-> TRUE, status |-> 200, json |-> TRUE, array |-> TRUE,
          data |-> cs] : cs \in SeqsUpTo(CandidatePool, MaxCandidates) }

PlacePool ==
  { [geometry |-> Some([lat |-> 39100, lon |-> -94578]), name |-> Some(<<"S", "w">>),
     vicinity |-> Some(<<"K", "C">>), formatted_address |-> None, rating |-> Some(47),
     user_ratings_total |-> Some(350), types |-> Some({"park"}),
     place_id |-> Some(<<"p", "1">>)],
    [geometry |-> None, name |-> None, vicinity |-> None, formatted_address |-> None,
     rating |-> None, user_ratings_total |-> None, types |-> None, place_id |-> None] }

PlacesResponses ==
  { [status |-> "OK", res |-> Some(ps)] : ps \in SeqsUpTo(PlacePool, MaxElems) }
  \cup { [status |-> "ZERO_RESULTS", res |-> None],
         [status |-> "ZERO_RESULTS", res |-> Some(<<>>)],
         [status |-> "OVER_QUERY_LIMIT", res |-> None] }

GeocoderPool == { [lat |-> 39100, lon |-> -94578], [lat |-> 41878, lon |-> -87630] }

GeocoderResponses ==
  { [status |-> "OK", res |-> Some(gs)] : gs \in SeqsUpTo(GeocoderPool, MaxCandidates) }
  \cup { [status |-> "ZERO_RESULTS", res |-> Some(<<>>)],
         [status |-> "ERROR", res |-> None] }

\* positions the browser may report
Positions == { [lat |-> 39100, lon |-> -94578] }

\* what the area input may hold when "Search this area" is clicked
AreaTexts == { <<>>, <<" ">>, <<" ", "K", "C">> }

\* what the radius selector may hold when a button is clicked: km in
\* part_002 and part_003 (App.tsx has no selector and passes 50), m in part_001
RadiusOptions(v) ==
  CASE v = "App" -> {50}
    [] v = "Places" -> {5000, 20000}
    [] OTHER -> {25, 50}

\* the map views "Search this map" may be clicked in
ViewBoxes == { BboxAround(Some(StLouisLat), Some(StLouisLon), 20) }

ViewDistances == { 200, 90000 }

TypedAreaRadius == 10000

(***************************************************************************)
(* State                                                                   *)
(*                                                                         *)
(* The area text and the radius are read by a handler when it is clicked   *)
(* and never after (the closure keeps the values of that render), so they  *)
(* are inputs of the click actions.                                        *)
(***************************************************************************)
VARIABLES
  variant,        \* which application variant runs
  dynamicCourses, \* useState<CourseItem[] | null>(null)
  loading,        \* useState(false)
  errorMsg,       \* useState<string | null>(null)
  mapState,       \* mapRef.current: "none", "loading", "ready" or "failed"
  sourceCourses,  \* the list the last render fed to the composer
  tasks,          \* the handler invocations, in click order
  lastFetched,    \* the list of the last query that succeeded
  lastDone,       \* the outcome of the invocation the last step finished, if any
  unhandled,      \* some rejection escaped its handler
  fetcher,        \* which function is called on its own, or where the stored list came from
  response,       \* the response it is called on
  outcome,        \* what it returned or threw, once it has
  query,          \* useState('')
  difficulty,     \* useState<Difficulty>('All')
  onlyTopPicks,   \* useState(false)
  sortBy          \* useState<'rating' | 'name'>('rating')

\* the inputs of the result composer next to the source list
filters == <<query, difficulty, onlyTopPicks, sortBy>>

call == <<fetcher, response, outcome, filters>>

vars == <<variant, dynamicCourses, loading, errorMsg, mapState, sourceCourses, tasks,
          lastFetched, lastDone, unhandled, call>>

\* kind, pc: the handler and the await it is suspended at; radius: the radius
\* it read; queries: the region / provider queries it issued; geocodes: the
\* geocode requests it issued; failures: what went wrong so far; geo, loc: the
\* geocode response and the location taken from it; after: the invocations
\* whose query was in flight when this one's was issued; superseded: a query
\* issued after this one's has already been stored; answer: the response to
\* its last query, once it has come
Finished ==
  [kind |-> "none", pc |-> "done", radius |-> 0, queries |-> <<>>, geocodes |-> 0,
   failures |-> <<>>, geo |-> None, loc |-> None, after |-> {}, superseded |-> FALSE,
   answer |-> None]

NewTask(kind, r) == [Finished EXCEPT !.kind = kind, !.pc = "start", !.radius = r]

QueryInFlight(t) == t.pc \in {"fetch", "fallback", "nearby"}

InFlight(t) == t.pc \in {"geo", "geocode"} \/ QueryInFlight(t)

Fail(t, type, at) == [t EXCEPT !.failures = Append(@, [type |-> type, at |-> at])]

IssueQuery(t, pc, q) ==
  [t EXCEPT !.pc = pc, !.queries = Append(@, q), !.answer = None,
            !.after = {j \in 1..Len(tasks) : QueryInFlight(tasks[j])}]

Put(ts, i, t) == IF i > Len(ts) THEN Append(ts, t) ELSE [ts EXCEPT ![i] = t]

\* an onClick starts one invocation of an async handler; nothing running is touched
StartTask(ts, t) == Append(ts, t)

\* the fallback with the length test left out: dynamicCourses ? dynamicCourses : COURSES
SourceCoursesNullOnly(dc) == IF IsSome(dc) THEN Get(dc) ELSE COURSES

\* dynamicCourses && dynamicCourses.length > 0 ? dynamicCourses : COURSES
SourceCourses(dc) == IF IsSome(dc) /\ Len(Get(dc)) > 0 THEN Get(dc) ELSE COURSES

\* the handlers with the geocode request awaited outside the try block
TryPointsNoGeocode(v) ==
  IF v = "Places"
  THEN { <<"loadNearby", "geo">>, <<"loadNearby", "nearby">>, <<"searchArea", "nearby">>,
         <<"searchThisMap", "nearby">> }
  ELSE { <<"loadNearby", "geo">>, <<"loadNearby", "fetch">>, <<"loadNearby", "fallback">>,
         <<"searchArea", "fetch">>, <<"searchThisMap", "fetch">> }

\* the await points that sit inside a try block, per handler
TryPoints(v) ==
  IF v = "Places"
  THEN { <<"loadNearby", "geo">>, <<"loadNearby", "nearby">>, <<"searchArea", "geocode">>,
         <<"searchArea", "nearby">>, <<"searchThisMap", "nearby">> }
  ELSE { <<"loadNearby", "geo">>, <<"loadNearby", "fetch">>, <<"loadNearby", "fallback">>,
         <<"searchArea", "geocode">>, <<"searchArea", "fetch">>,
         <<"searchThisMap", "fetch">> }

Init ==
  /\ variant \in Variants
  /\ dynamicCourses = None
  /\ loading = FALSE
  /\ errorMsg = None
  /\ mapState \in CASE variant = "Places" -> {"loading"}
                    [] variant = "Leaflet" -> {"ready", "failed"}
                    [] OTHER -> {"none"}
  /\ sourceCourses = COURSES
  /\ tasks = <<>>
  /\ lastFetched = None
  /\ lastDone = None
  /\ unhandled = FALSE
  /\ fetcher = "none"
  /\ response = None
  /\ outcome = None
  /\ query = <<>>
  /\ difficulty = "All"
  /\ onlyTopPicks = FALSE
  /\ sortBy = "rating"

(***************************************************************************)
(* How a handler step ends: the invocation goes on waiting (Await), ends   *)
(* (Settle), or dies on a rejection no try block encloses (Escape)         *)
(***************************************************************************)
\* an await that cancels every other query in flight when it issues one
AwaitAborting(i, t, err, ld) ==
  /\ tasks' = [j \in 1..(IF i > Len(tasks) THEN i ELSE Len(tasks)) |->
                 IF j = i THEN t
                 ELSE IF QueryInFlight(t) /\ QueryInFlight(tasks[j]) THEN Finished
                      ELSE tasks[j]]
  /\ errorMsg' = err
  /\ loading' = ld
  /\ lastDone' = None
  /\ UNCHANGED <<call, variant, dynamicCourses, mapState, sourceCourses, lastFetched,
                 unhandled>>

Await(i, t, err, ld) ==
  /\ tasks' = Put(tasks, i, t)
  /\ errorMsg' = err
  /\ loading' = ld
  /\ lastDone' = None
  /\ UNCHANGED <<call, variant, dynamicCourses, mapState, sourceCourses, lastFetched, unhandled>>

\* the invocations whose query is overtaken when t's response is stored
Overtaken(t, wrote) ==
  IF wrote THEN {j \in t.after : QueryInFlight(tasks[j])} ELSE {}

\* an ending that clears the stored list when it has none to store
SettleClearing(i, t, err, out, ld) ==
  /\ tasks' = [j \in 1..(IF i > Len(tasks) THEN i ELSE Len(tasks)) |->
                 IF j = i THEN Finished
                 ELSE IF j \in Overtaken(t, IsSome(out))
                      THEN [tasks[j] EXCEPT !.superseded = TRUE]
                      ELSE tasks[j]]
  /\ errorMsg' = err
  /\ loading' = ld
  /\ dynamicCourses' = out
  /\ sourceCourses' = SourceCourses(dynamicCourses')
  /\ lastFetched' = out
  /\ lastDone' = Some([kind |-> t.kind, nqueries |-> Len(t.queries),
                       geocodes |-> t.geocodes, failures |-> t.failures, geo |-> t.geo,
                       loc |-> t.loc, answer |-> t.answer, error |-> err,
                       wrote |-> IsSome(out),
                       overwroteNewer |-> (IsSome(out) /\ t.superseded)])
  /\ UNCHANGED <<call, variant, mapState, unhandled>>

\* out is Some(items) when the step calls setDynamicCourses(items)
Settle(i, t, err, out, ld) ==
  /\ tasks' = [j \in 1..(IF i > Len(tasks) THEN i ELSE Len(tasks)) |->
                 IF j = i THEN Finished
                 ELSE IF j \in Overtaken(t, IsSome(out))
                      THEN [tasks[j] EXCEPT !.superseded = TRUE]
                      ELSE tasks[j]]
  /\ errorMsg' = err
  /\ loading' = ld
  /\ dynamicCourses' = IF IsSome(out) THEN out ELSE dynamicCourses
  /\ sourceCourses' = SourceCourses(dynamicCourses')
  /\ lastFetched' = IF IsSome(out) THEN out ELSE lastFetched
  /\ lastDone' = Some([kind |-> t.kind, nqueries |-> Len(t.queries),
                       geocodes |-> t.geocodes, failures |-> t.failures, geo |-> t.geo,
                       loc |-> t.loc, answer |-> t.answer, error |-> err,
                       wrote |-> IsSome(out),
                       overwroteNewer |-> (IsSome(out) /\ t.superseded)])
  /\ UNCHANGED <<call, variant, mapState, unhandled>>

Escape(i, t) ==
  /\ tasks' = Put(tasks, i, Finished)
  /\ unhandled' = TRUE
  /\ lastDone' = None
  /\ UNCHANGED <<call, variant, dynamicCourses, loading, errorMsg, mapState, sourceCourses,
                 lastFetched>>

\* a rejection at await point `at` of invocation t lands in a catch block
Caught(t, at) == <<t.kind, at>> \in TryPoints(variant)

(***************************************************************************)
(* Messages                                                                *)
(***************************************************************************)
MsgLoadFailed == "Could not load courses right now. Please try again."

MsgNoLocationLeaflet == "Could not get your location. Try Search this area instead."

MsgTypeArea == "Type a city or area first."

MsgAreaNotFound == "Area not found. Try a more specific name."

MsgAreaFailed == "Could not load that area right now."

MsgMapViewFailed == "Could not load courses for this map view."

MsgNearbyFailed == "Places Nearby search failed."

MsgGeocodingFailed == "Geocoding failed for that area."

MsgNoLocationPlaces == "Could not get your location."

MsgMissingKey == "Missing Google Maps API key. Add VITE_GOOGLE_MAPS_API_KEY."

MsgMapsFailed == "Failed to load Google Maps."

(***************************************************************************)
(* loadNearby                                                              *)
(***************************************************************************)
FallbackBox(radiusKm) == BboxAround(Some(StLouisLat), Some(StLouisLon), radiusKm)

\* a catch block that reports the failure at once, without the fallback query
LoadNearbyCatchNoRetry(i, t, err, ld) ==
  IF variant = "Places" THEN Settle(i, t, Some(MsgNoLocationPlaces), None, ld)
  ELSE IF HasFallback(variant) THEN Settle(i, t, Some(MsgLoadFailed), None, FALSE)
       ELSE Settle(i, t, Some(MsgNoLocationLeaflet), None, FALSE)

\* the catch block of loadNearby, entered with the failure already noted in t;
\* err and ld are errorMsg and loading as the try block left them
LoadNearbyCatch(i, t, err, ld) ==
  IF variant = "Places" THEN Settle(i, t, Some(MsgNoLocationPlaces), None, ld)
  ELSE IF HasFallback(variant)
       THEN Await(i, IssueQuery(t, "fallback", FallbackBox(t.radius)), err, ld)
       ELSE Settle(i, t, Some(MsgNoLocationLeaflet), None, FALSE)

\* runNearbySearch up to its await: the map is there whenever a handler got this far
RunNearbySearch(i, t, lat, lon, radiusMeters) ==
  Await(i, IssueQuery(t, "nearby", [lat |-> lat, lon |-> lon, radius |-> radiusMeters]),
        None, TRUE)

\* onClick={loadNearby}, up to the first await
LoadNearbyClick ==
  /\ ~loading
  /\ Len(tasks) < MaxInvocations
  /\ \E available \in BOOLEAN : \E r \in RadiusOptions(variant) :
       LET i == Len(tasks) + 1
           t == [NewTask("loadNearby", r) EXCEPT !.pc = "geo"]
           ld == (variant # "Places")
           Catch(j, u) == LoadNearbyCatch(j, u, None, ld)
       IN  IF variant = "Places" /\ mapState # "ready" THEN UNCHANGED vars
           ELSE IF available
                THEN /\ tasks' = StartTask(tasks, t)
                     /\ errorMsg' = None
                     /\ loading' = ld
                     /\ lastDone' = None
                     /\ UNCHANGED <<call, variant, dynamicCourses, mapState, sourceCourses,
                                    lastFetched, unhandled>>
                ELSE (LET failed == Fail(t, "PermissionDenied", "geo") IN
                 IF Caught(failed, "geo") THEN Catch(i, failed) ELSE Escape(i, failed))

\* getCurrentPosition calls resolve
GeolocationResolved ==
  \E i \in 1..Len(tasks) : \E pos \in Positions :
    LET t == tasks[i] IN
    /\ t.pc = "geo"
    /\ IF variant = "Places"
       THEN RunNearbySearch(i, t, pos.lat, pos.lon, t.radius)
       ELSE Await(i, IssueQuery(t, "fetch",
                                BboxAround(Some(pos.lat), Some(pos.lon), t.radius)),
                  errorMsg, loading)

\* getCurrentPosition calls reject (refused, unavailable, timed out)
GeolocationRejected ==
  \E i \in 1..Len(tasks) :
    LET t == tasks[i]
        Catch(j, u) == LoadNearbyCatch(j, u, errorMsg, loading)
    IN  /\ t.pc = "geo"
        /\ (LET failed == Fail(t, "PermissionDenied", "geo") IN
                 IF Caught(failed, "geo") THEN Catch(i, failed) ELSE Escape(i, failed))

(***************************************************************************)
(* searchArea / geocodeAndSearchArea                                       *)
(***************************************************************************)
\* onClick={searchArea} (part_002, part_003), up to the first await
SearchAreaClick ==
  /\ variant \in {"Nominatim", "Leaflet"}
  /\ ~loading
  /\ Len(tasks) < MaxInvocations
  /\ \E areaText \in AreaTexts : \E r \in RadiusOptions(variant) :
       LET i == Len(tasks) + 1
           t == NewTask("searchArea", r)
       IN  IF Len(Trim(areaText)) = 0
           THEN Settle(i, t, Some(MsgTypeArea), None, loading)
           ELSE /\ tasks' = StartTask(tasks, [t EXCEPT !.pc = "geocode", !.geocodes = 1])
                /\ errorMsg' = None
                /\ loading' = TRUE
                /\ lastDone' = None
                /\ UNCHANGED <<call, variant, dynamicCourses, mapState, sourceCourses,
                               lastFetched, unhandled>>

\* the taxonomy's name for a geocode that yields no location
GeocodeFailure(resp) == IF resp.transport /\ resp.ok THEN "NotFound" ELSE "NetworkError"

\* the Nominatim request settles: the rest of searchArea up to the next await
GeocodeResponded ==
  \E i \in 1..Len(tasks) : \E resp \in GeocodeResponses :
    LET t == [tasks[i] EXCEPT !.geo = Some(resp)]
        g == GeocodePlace(resp)
        Catch(j, u) == Settle(j, u, Some(MsgAreaFailed), None, FALSE)
    IN  /\ variant \in {"Nominatim", "Leaflet"}
        /\ tasks[i].pc = "geocode"
        /\ IF g.thrown THEN (LET failed == Fail(t, "NetworkError", "geocode") IN
                 IF Caught(failed, "geocode") THEN Catch(i, failed) ELSE Escape(i, failed))
           ELSE IF IsNone(g.loc)
                THEN Settle(i, Fail(t, GeocodeFailure(resp), "geocode"),
                            Some(MsgAreaNotFound), None, FALSE)
                ELSE Await(i, IssueQuery([t EXCEPT !.loc = g.loc], "fetch",
                                         BboxAround(Get(g.loc).lat, Get(g.loc).lon,
                                                    t.radius)),
                           errorMsg, loading)

\* onClick={() => geocodeAndSearchArea(areaText)} (part_001)
GeocodeAndSearchAreaClick ==
  /\ variant = "Places"
  /\ ~loading
  /\ Len(tasks) < MaxInvocations
  /\ IF mapState # "ready" THEN UNCHANGED vars
     ELSE /\ tasks' = StartTask(tasks, [NewTask("searchArea", TypedAreaRadius)
                                          EXCEPT !.pc = "geocode", !.geocodes = 1])
          /\ errorMsg' = None
          /\ loading' = TRUE
          /\ lastDone' = None
          /\ UNCHANGED <<call, variant, dynamicCourses, mapState, sourceCourses, lastFetched,
                         unhandled>>

\* the Geocoder callback runs: the rest of geocodeAndSearchArea up to the next await
GeocoderResponded ==
  \E i \in 1..Len(tasks) : \E resp \in GeocoderResponses :
    LET t == [tasks[i] EXCEPT !.geo = Some(resp)]
        g == GeocoderCallback(resp)
        Catch(j, u) == Settle(j, u, Some(MsgGeocodingFailed), None, FALSE)
        type == IF resp.status \in {"OK", "ZERO_RESULTS"} THEN "NotFound"
                ELSE "NetworkError"
    IN  /\ variant = "Places"
        /\ tasks[i].pc = "geocode"
        /\ IF g.thrown THEN (LET failed == Fail(t, type, "geocode") IN
                 IF Caught(failed, "geocode") THEN Catch(i, failed) ELSE Escape(i, failed))
           ELSE RunNearbySearch(i, [t EXCEPT !.loc = g.loc], Get(Get(g.loc).lat),
                                Get(Get(g.loc).lon), t.radius)

(***************************************************************************)
(* searchThisMap                                                           *)
(***************************************************************************)
\* onClick={searchThisMap}, up to the first await
SearchThisMapClick ==
  /\ variant \in {"Leaflet", "Places"}
  /\ ~loading
  /\ Len(tasks) < MaxInvocations
  /\ LET i == Len(tasks) + 1
     IN  IF variant = "Leaflet"
         THEN IF mapState # "ready"
              THEN /\ errorMsg' = None
                   /\ lastDone' = None
                   /\ UNCHANGED <<call, variant, dynamicCourses, loading, mapState,
                                  sourceCourses, tasks, lastFetched, unhandled>>
              ELSE \E b \in ViewBoxes :
                     Await(i, IssueQuery(NewTask("searchThisMap", 0), "fetch", b),
                           None, TRUE)
         ELSE IF mapState # "ready" THEN UNCHANGED vars
              ELSE \E d \in ViewDistances : \E c \in Positions :
                     RunNearbySearch(i, NewTask("searchThisMap", ClampRadius(d)),
                                     c.lat, c.lon, ClampRadius(d))

(***************************************************************************)
(* The region / provider query settles                                     *)
(***************************************************************************)
\* what the catch block around the awaited query shows
QueryFailedMsg(t) ==
  CASE t.kind = "loadNearby" -> IF variant = "Leaflet" THEN MsgNoLocationLeaflet
                                ELSE MsgLoadFailed
    [] t.kind = "searchArea" -> MsgAreaFailed
    [] OTHER -> MsgMapViewFailed

\* a catch block with no finally behind it: loading stays as it is
QueryCatchNoFinally(i, t) == Settle(i, t, Some(QueryFailedMsg(t)), None, loading)

\* a catch block that issues the failed query once more
QueryCatchRetry(i, t) ==
  IF Len(t.queries) < 2
  THEN Await(i, IssueQuery(t, "fetch", Last(t.queries)), errorMsg, loading)
  ELSE Settle(i, t, Some(QueryFailedMsg(t)), None, FALSE)

\* the catch block of searchArea and searchThisMap around the region query
QueryCatch(i, t) == Settle(i, t, Some(QueryFailedMsg(t)), None, FALSE)

\* fetchCoursesInBBox settles: the rest of the handler
RegionQueryResponded ==
  \E i \in 1..Len(tasks) : \E resp \in OverpassResponses :
    LET t == [tasks[i] EXCEPT !.answer = Some(resp)]
        r == FetchCoursesInBBox(resp)
        CatchFirst(j, u) ==
          IF u.kind = "loadNearby" THEN LoadNearbyCatch(j, u, errorMsg, loading)
          ELSE QueryCatch(j, u)
        CatchFallback(j, u) == Settle(j, u, Some(MsgLoadFailed), None, FALSE)
    IN  /\ variant \in Overpass
        /\ t.pc \in {"fetch", "fallback"}
        /\ IF r.ok THEN Settle(i, t, errorMsg, Some(r.items), FALSE)
           ELSE IF t.pc = "fetch"
                THEN (LET failed == Fail(t, "NetworkError", "fetch") IN
                 IF Caught(failed, "fetch") THEN CatchFirst(i, failed) ELSE Escape(i, failed))
                ELSE (LET failed == Fail(t, "NetworkError", "fallback") IN
                 IF Caught(failed, "fallback") THEN CatchFallback(i, failed) ELSE Escape(i, failed))

\* the nearbySearch callback runs: the rest of runNearbySearch and of its caller
NearbySearchResponded ==
  \E i \in 1..Len(tasks) : \E resp \in PlacesResponses :
    LET t == [tasks[i] EXCEPT !.answer = Some(resp)]
        r == PlacesCallback(resp)
        Catch(j, u) == Settle(j, u, Some(MsgNearbyFailed), None, FALSE)
    IN  /\ variant = "Places"
        /\ t.pc = "nearby"
        /\ IF r.ok THEN Settle(i, t, errorMsg, Some(r.items), FALSE)
           ELSE (LET failed == Fail(t, "NetworkError", "nearby") IN
                 IF Caught(failed, "nearby") THEN Catch(i, failed) ELSE Escape(i, failed))

(***************************************************************************)
(* The map                                                                 *)
(***************************************************************************)
\* the effect that loads Google Maps and builds the map (part_001)
MapInit ==
  /\ variant = "Places"
  /\ mapState = "loading"
  /\ \E result \in {"nokey", "loaded", "failed"} :
       /\ mapState' = IF result = "loaded" THEN "ready" ELSE "failed"
       /\ errorMsg' = CASE result = "nokey" -> Some(MsgMissingKey)
                        [] result = "failed" -> Some(MsgMapsFailed)
                        [] OTHER -> errorMsg
       /\ lastDone' = None
       /\ UNCHANGED <<call, variant, dynamicCourses, loading, sourceCourses, tasks,
                      lastFetched, unhandled>>

Next ==
  \/ LoadNearbyClick
  \/ GeolocationResolved
  \/ GeolocationRejected
  \/ SearchAreaClick
  \/ GeocodeResponded
  \/ GeocodeAndSearchAreaClick
  \/ GeocoderResponded
  \/ SearchThisMapClick
  \/ RegionQueryResponded
  \/ NearbySearchResponded
  \/ MapInit

Spec == Init /\ [][Next]_vars

\* every pending geolocation, geocode and query request is answered in the
\* end: the browser and the providers settle each promise
Responses ==
  \/ GeolocationResolved
  \/ GeolocationRejected
  \/ GeocodeResponded
  \/ GeocoderResponded
  \/ RegionQueryResponded
  \/ NearbySearchResponded

SpecLive == Init /\ [][Next]_vars /\ WF_vars(Responses)

(***************************************************************************)
(* fetchCoursesInBBox on its own: every response, both versions            *)
(***************************************************************************)
\* longest elements array handed to the fetcher alone
MaxFetchElems == 3

\* two elements of one course, two elements whose names and cities differ
\* but run together to the same text, and an untagged element without id
FetchPool ==
  { [id |-> Some(1), lat |-> Some(38558), lon |-> Some(-91020), center |-> None,
     tags |-> Some([NoTags EXCEPT !.name = Some(<<"a", "_">>),
                                  !.addrcity = Some(<<"b">>)])],
    [id |-> Some(2), lat |-> None, lon |-> None,
     center |-> Some([lat |-> Some(38559), lon |-> Some(-91021)]),
     tags |-> Some([NoTags EXCEPT !.name = Some(<<"a", "_">>),
                                  !.city = Some(<<"b">>)])],
    [id |-> Some(3), lat |-> Some(38700), lon |-> Some(-90400), center |-> None,
     tags |-> Some([NoTags EXCEPT !.name = Some(<<"a">>),
                                  !.addrcity = Some(<<"_", "b">>)])],
    [id |-> None, lat |-> None, lon |-> None, center |-> None, tags |-> None] }

\* a node and a way that bear the same number: OSM numbers nodes, ways and
\* relations apart, and the fetcher asks for all three kinds (nwr)
SameIdPool ==
  { [id |-> Some(5), lat |-> Some(38558), lon |-> Some(-91020), center |-> None,
     tags |-> Some([NoTags EXCEPT !.name = Some(<<"R", "v">>)])],
    [id |-> Some(5), lat |-> None, lon |-> None,
     center |-> Some([lat |-> Some(38700), lon |-> Some(-90400)]),
     tags |-> Some([NoTags EXCEPT !.name = Some(<<"S", "w">>)])] }

FetchResponses ==
  { [transport |-> FALSE, ok |-> FALSE, status |-> 0, json |-> FALSE, elements |-> None],
    [transport |-> TRUE, ok |-> FALSE, status |-> 504, json |-> FALSE, elements |-> None],
    [transport |-> TRUE, ok |-> TRUE, status |-> 200, json |-> FALSE, elements |-> None],
    [transport |-> TRUE, ok |-> TRUE, status |-> 200, json |-> TRUE, elements |-> None] }
  \cup { [transport |-> TRUE, ok |-> FALSE, status |-> 429, json |-> TRUE,
          elements |-> Some(es)] : es \in SeqsUpTo(FetchPool, 1) }
  \cup { [transport |-> TRUE, ok |-> TRUE, status |-> 200, json |-> TRUE,
          elements |-> Some(es)] : es \in SeqsUpTo(FetchPool, MaxFetchElems) }
  \cup { [transport |-> TRUE, ok |-> TRUE, status |-> 200, json |-> TRUE,
          elements |-> Some(es)] : es \in [1..2 -> SameIdPool] }

InitFetch ==
  /\ variant = "none"
  /\ dynamicCourses = None
  /\ loading = FALSE
  /\ errorMsg = None
  /\ mapState = "none"
  /\ sourceCourses = COURSES
  /\ tasks = <<>>
  /\ lastFetched = None
  /\ lastDone = None
  /\ unhandled = FALSE
  /\ fetcher \in {"App", "Draft"}
  /\ response \in {Some(r) : r \in FetchResponses}
  /\ outcome = None
  /\ query = <<>>
  /\ difficulty = "All"
  /\ onlyTopPicks = FALSE
  /\ sortBy = "rating"

\* fetchCoursesInBBox of App.tsx, part_002, part_003
FetchCall ==
  /\ fetcher = "App"
  /\ outcome = None
  /\ outcome' = Some(FetchCoursesInBBox(Get(response)))
  /\ UNCHANGED <<variant, dynamicCourses, loading, errorMsg, mapState, sourceCourses,
                 tasks, lastFetched, lastDone, unhandled, fetcher, response, filters>>

\* fetchCoursesInBBox of part_000
DraftFetchCall ==
  /\ fetcher = "Draft"
  /\ outcome = None
  /\ outcome' = Some(DraftFetchCoursesInBBox(Get(response)))
  /\ UNCHANGED <<variant, dynamicCourses, loading, errorMsg, mapState, sourceCourses,
                 tasks, lastFetched, lastDone, unhandled, fetcher, response, filters>>

NextFetch == FetchCall \/ DraftFetchCall

SpecFetch == InitFetch /\ [][NextFetch]_vars

(***************************************************************************)
(* The result composer                                                     *)
(***************************************************************************)
UpperLetters ==
  <<"A", "B", "C", "D", "E", "F", "G", "H", "I", "J", "K", "L", "M", "N", "O", "P", "Q",
    "R", "S", "T", "U", "V", "W", "X", "Y", "Z">>

LowerLetters ==
  <<"a", "b", "c", "d", "e", "f", "g", "h", "i", "j", "k", "l", "m", "n", "o", "p", "q",
    "r", "s", "t", "u", "v", "w", "x", "y", "z">>

LowerOf(c) ==
  IF \E i \in 1..26 : UpperLetters[i] = c
  THEN LowerLetters[CHOOSE i \in 1..26 : UpperLetters[i] = c]
  ELSE c

\* String.prototype.toLowerCase
ToLowerCase(s) == [i \in 1..Len(s) |-> LowerOf(s[i])]

\* String.prototype.includes
Includes(s, sub) ==
  \E i \in 0..Len(s) : i + Len(sub) <= Len(s) /\ SubSeq(s, i + 1, i + Len(sub)) = sub

\* a filter that compares the texts as typed
MatchesQueryAsTyped(c, q) == Includes(c.name \o <<" ">> \o c.city, q)

\* `${c.name} ${c.city}`.toLowerCase().includes(query.toLowerCase())
MatchesQuery(c, q) == Includes(ToLowerCase(c.name \o <<" ">> \o c.city), ToLowerCase(q))

\* a filter in which the wildcard is compared like any other value
MatchesDiffNoWildcard(c, d) == c.difficulty = d

\* difficulty === 'All' ? true : c.difficulty === difficulty
MatchesDiff(c, d) == IF d = "All" THEN TRUE ELSE c.difficulty = d

\* onlyTopPicks ? c.topPick : true
MatchesTop(c, top) == IF top THEN c.topPick ELSE TRUE

RECURSIVE KeptFrom(_, _, _, _, _)
KeptFrom(i, source, q, d, top) ==
  IF i > Len(source) THEN <<>>
  ELSE (IF MatchesQuery(source[i], q) /\ MatchesDiff(source[i], d) /\ MatchesTop(source[i], top)
        THEN <<i>> ELSE <<>>) \o KeptFrom(i + 1, source, q, d, top)

\* sourceCourses.filter(...): the positions of the items kept, in source order
KeptIndices(source, q, d, top) == KeptFrom(1, source, q, d, top)

\* the order String.prototype.localeCompare gives the characters of the
\* model: blank, punctuation, digits, letters; case counts only between
\* texts that are otherwise equal, lower case first
CollationOrder == <<" ", "_", ",", ".", "#">> \o DigitChars \o LowerLetters

PrimaryRank(c) == CHOOSE i \in 1..Len(CollationOrder) : CollationOrder[i] = LowerOf(c)

RECURSIVE ComparePrimary(_, _)
ComparePrimary(a, b) ==
  IF Len(a) = 0 /\ Len(b) = 0 THEN 0
  ELSE IF Len(a) = 0 THEN -1
  ELSE IF Len(b) = 0 THEN 1
  ELSE IF PrimaryRank(Head(a)) < PrimaryRank(Head(b)) THEN -1
  ELSE IF PrimaryRank(Head(a)) > PrimaryRank(Head(b)) THEN 1
  ELSE ComparePrimary(Tail(a), Tail(b))

RECURSIVE CompareCase(_, _)
CompareCase(a, b) ==
  IF Len(a) = 0 \/ Len(b) = 0 THEN 0
  ELSE IF Head(a) = Head(b) THEN CompareCase(Tail(a), Tail(b))
  ELSE IF Head(a) = LowerOf(Head(a)) THEN -1 ELSE 1

\* a.localeCompare(b)
LocaleCompare(a, b) ==
  IF ComparePrimary(a, b) # 0 THEN ComparePrimary(a, b) ELSE CompareCase(a, b)

\* a comparator with the rating difference the wrong way round
CompareAscending(a, b, by) ==
  IF by = "rating" THEN a.rating - b.rating ELSE LocaleCompare(a.name, b.name)

\* the comparator handed to sort
Compare(a, b, by) ==
  IF by = "rating" THEN b.rating - a.rating ELSE LocaleCompare(a.name, b.name)

\* an insertion that puts an item before the items it ties with
RECURSIVE InsertBeforeTies(_, _, _, _)
InsertBeforeTies(order, k, source, by) ==
  IF Len(order) = 0 THEN <<k>>
  ELSE IF Compare(source[Last(order)], source[k], by) < 0 THEN Append(order, k)
  ELSE Append(InsertBeforeTies(SubSeq(order, 1, Len(order) - 1), k, source, by),
              Last(order))

\* Array.prototype.sort is stable: an item goes behind everything that does
\* not have to come after it
RECURSIVE InsertSorted(_, _, _, _)
InsertSorted(order, k, source, by) ==
  IF Len(order) = 0 THEN <<k>>
  ELSE IF Compare(source[Last(order)], source[k], by) <= 0 THEN Append(order, k)
  ELSE Append(InsertSorted(SubSeq(order, 1, Len(order) - 1), k, source, by), Last(order))

\* items.sort(...): the positions in kept, in the order the sort leaves them
RECURSIVE SortOrder(_, _, _)
SortOrder(kept, source, by) ==
  IF Len(kept) = 0 THEN <<>>
  ELSE InsertSorted(SortOrder(SubSeq(kept, 1, Len(kept) - 1), source, by), Last(kept),
                    source, by)

\* a composer that sorts the source array itself before it filters
ComposeInPlace(source, q, d, top, by) ==
  LET all == SortOrder([i \in 1..Len(source) |-> i], source, by)
      sorted == [k \in 1..Len(source) |-> source[all[k]]]
      kept == KeptIndices(sorted, q, d, top)
  IN  [results |-> [k \in 1..Len(kept) |-> sorted[kept[k]]], order |-> kept,
       source |-> sorted]

\* a composer that turns to the seed list when the filters leave nothing
ComposeSeedWhenEmpty(source, q, d, top, by) ==
  LET src == IF KeptIndices(source, q, d, top) = <<>> THEN COURSES ELSE source
      order == SortOrder(KeptIndices(src, q, d, top), src, by)
  IN  [results |-> [k \in 1..Len(order) |-> src[order[k]]], order |-> order,
       source |-> source]

\* the body of useMemo: filter builds a new array and sort orders that one;
\* order: the source positions of the results; source: the source array as
\* the composer leaves it
Compose(source, q, d, top, by) ==
  LET order == SortOrder(KeptIndices(source, q, d, top), source, by)
  IN  [results |-> [k \in 1..Len(order) |-> source[order[k]]], order |-> order,
       source |-> source]

\* the list the cards are rendered from
Results == Compose(sourceCourses, query, difficulty, onlyTopPicks, sortBy).results

ResultOrder == Compose(sourceCourses, query, difficulty, onlyTopPicks, sortBy).order

(***************************************************************************)
(* The composer on its own: any source list, any sequence of changes of    *)
(* the search box, the difficulty chips, the checkbox and the sort select  *)
(***************************************************************************)
\* longest fetched list handed to the composer
MaxComposeItems == 3

QueryPool ==
  { <<>>, <<"m", "a", "r", "y", "l", "a", "n", "d">>, <<"M", "A", "R", "Y">>,
    <<"c", " ", "w">>, <<"c", "w">>, <<"a", "_">>, <<"z", "z">> }

DifficultyOptions == {"All", "Beginner", "Intermediate", "Advanced"}

\* the lists an Overpass fetch and a Places search may have stored
OverpassSources ==
  {Some(Dedupe(MapElements(es))) : es \in SeqsUpTo(FetchPool, MaxComposeItems)}

PlacesSources == {Some(MapPlaces(ps)) : ps \in SeqsUpTo(PlacePool, MaxComposeItems)}

ComposeSources == {None} \cup OverpassSources \cup PlacesSources

InitCompose ==
  /\ variant = "none"
  /\ dynamicCourses \in ComposeSources
  /\ fetcher \in {"Seed", "App", "Places"}
  /\ fetcher = "Seed" <=> dynamicCourses = None
  /\ fetcher = "App" => dynamicCourses \in OverpassSources
  /\ fetcher = "Places" => dynamicCourses \in PlacesSources
  /\ loading = FALSE
  /\ errorMsg = None
  /\ mapState = "none"
  /\ sourceCourses = SourceCourses(dynamicCourses)
  /\ tasks = <<>>
  /\ lastFetched = dynamicCourses
  /\ lastDone = None
  /\ unhandled = FALSE
  /\ response = None
  /\ outcome = None
  /\ query = <<>>
  /\ difficulty = "All"
  /\ onlyTopPicks = FALSE
  /\ sortBy = "rating"

\* the render that follows a change: useMemo runs on the source array, which
\* is dynamicCourses itself when that is non-empty
Recompose ==
  LET c == Compose(sourceCourses, query', difficulty', onlyTopPicks', sortBy')
  IN  /\ sourceCourses' = c.source
      /\ dynamicCourses' = IF IsSome(dynamicCourses) /\ Len(Get(dynamicCourses)) > 0
                           THEN Some(c.source) ELSE dynamicCourses
      /\ UNCHANGED <<variant, loading, errorMsg, mapState, tasks, lastFetched, lastDone,
                     unhandled, fetcher, response, outcome>>

\* onChange={(e) => setQuery(e.target.value)}
SetQuery ==
  /\ \E q \in QueryPool : query' = q
  /\ UNCHANGED <<difficulty, onlyTopPicks, sortBy>>
  /\ Recompose

\* onClick={() => setDifficulty(opt)}
SetDifficulty ==
  /\ \E d \in DifficultyOptions : difficulty' = d
  /\ UNCHANGED <<query, onlyTopPicks, sortBy>>
  /\ Recompose

\* onChange={(e) => setOnlyTopPicks(e.target.checked)}
SetOnlyTopPicks ==
  /\ onlyTopPicks' = ~onlyTopPicks
  /\ UNCHANGED <<query, difficulty, sortBy>>
  /\ Recompose

\* onChange={(e) => setSortBy(e.target.value as any)}
SetSortBy ==
  /\ \E by \in {"rating", "name"} : sortBy' = by
  /\ UNCHANGED <<query, difficulty, onlyTopPicks>>
  /\ Recompose

NextCompose == SetQuery \/ SetDifficulty \/ SetOnlyTopPicks \/ SetSortBy

SpecCompose == InitCompose /\ [][NextCompose]_vars

(***************************************************************************)
(* Normalization on its own: one raw record, each of the three versions    *)
(***************************************************************************)
\* largest position of a record in its array
MaxIndex == 1

\* holes tags: absent, empty, blank, zero, whole, negative, fractional, words
HolesTags ==
  { None, Some(<<>>), Some(<<" ">>), Some(<<"0">>), Some(<<"9">>), Some(<<"1", "8">>),
    Some(<<"-", "3">>), Some(<<"4", ".", "5">>), Some(<<"a", "b", "c">>),
    Some(<<"9", " ", "h">>) }

NameTags == { None, Some(<<>>), Some(<<"R", "v">>) }

\* where a record may carry its coordinates: on itself (node), on its center
\* (way, relation), nowhere, on the equator or the prime meridian, by halves
CoordRecords ==
  { [id |-> Some(7), lat |-> la, lon |-> lo, center |-> ce,
     tags |-> Some([NoTags EXCEPT !.name = Some(<<"R", "v">>)])] :
      la \in {None, Some(0), Some(38558)}, lo \in {None, Some(0), Some(-91020)},
      ce \in {None, Some([lat |-> Some(38559), lon |-> Some(-91021)])} }

CityTags == { None, Some(<<>>) }

\* the three city tags, each absent, empty or holding a text of its own
CityRecords ==
  { [id |-> Some(7), lat |-> Some(38558), lon |-> Some(-91020), center |-> None,
     tags |-> Some([NoTags EXCEPT !.addrcity = a, !.city = c, !.addr_city = u])] :
      a \in CityTags \cup {Some(<<"W", "a">>)}, c \in CityTags \cup {Some(<<"U", "n">>)},
      u \in CityTags \cup {Some(<<"S", "t">>)} }

RawRecords ==
  { [id |-> None, lat |-> None, lon |-> None, center |-> None, tags |-> None] }
  \cup { [id |-> i, lat |-> Some(38558), lon |-> Some(-91020), center |-> None,
          tags |-> Some([NoTags EXCEPT !.name = n, !.holes = h])] :
         i \in {None, Some(7)}, n \in NameTags, h \in HolesTags }
  \cup CoordRecords
  \cup CityRecords

\* places with and without a name, an id, a position, a rating, and with
\* review counts on both sides of the top-pick threshold
PlaceRecords ==
  PlacePool
  \cup { [p EXCEPT !.name = Some(<<>>)] : p \in PlacePool }
  \cup { [geometry |-> g, name |-> Some(<<"S", "w">>), vicinity |-> Some(<<"K", "C">>),
          formatted_address |-> None, rating |-> r, user_ratings_total |-> n,
          types |-> None, place_id |-> pid] :
         g \in {None, Some([lat |-> 39100, lon |-> -94578])},
         r \in {None, Some(44), Some(45)},
         n \in {None, Some(0), Some(TopPickReviews), Some(TopPickReviews + 1)},
         pid \in {None, Some(<<"p", "1">>)} }

InitNormalize ==
  /\ variant = "none"
  /\ dynamicCourses = None
  /\ loading = FALSE
  /\ errorMsg = None
  /\ mapState = "none"
  /\ sourceCourses = COURSES
  /\ tasks = <<>>
  /\ lastFetched = None
  /\ lastDone = None
  /\ unhandled = FALSE
  /\ \/ /\ fetcher \in {"App", "Draft"}
        /\ response \in {Some([el |-> e, idx |-> k]) : e \in RawRecords, k \in 0..MaxIndex}
     \/ /\ fetcher = "Places"
        /\ response \in {Some([el |-> e, idx |-> k]) : e \in PlaceRecords, k \in 0..MaxIndex}
  /\ outcome = None
  /\ query = <<>>
  /\ difficulty = "All"
  /\ onlyTopPicks = FALSE
  /\ sortBy = "rating"

\* the map callback of App.tsx, part_002, part_003
NormalizeCall ==
  /\ fetcher = "App"
  /\ outcome = None
  /\ outcome' = Some(NormalizeElement(Get(response).el, Get(response).idx))
  /\ UNCHANGED <<variant, dynamicCourses, loading, errorMsg, mapState, sourceCourses,
                 tasks, lastFetched, lastDone, unhandled, fetcher, response, filters>>

\* the map callback of part_000
DraftNormalizeCall ==
  /\ fetcher = "Draft"
  /\ outcome = None
  /\ outcome' = Some(DraftNormalizeElement(Get(response).el, Get(response).idx))
  /\ UNCHANGED <<variant, dynamicCourses, loading, errorMsg, mapState, sourceCourses,
                 tasks, lastFetched, lastDone, unhandled, fetcher, response, filters>>

\* placeToCourse of part_001
PlaceToCourseCall ==
  /\ fetcher = "Places"
  /\ outcome = None
  /\ outcome' = Some(PlaceToCourse(Get(response).el, Get(response).idx))
  /\ UNCHANGED <<variant, dynamicCourses, loading, errorMsg, mapState, sourceCourses,
                 tasks, lastFetched, lastDone, unhandled, fetcher, response, filters>>

NextNormalize == NormalizeCall \/ DraftNormalizeCall \/ PlaceToCourseCall

SpecNormalize == InitNormalize /\ [][NextNormalize]_vars

(***************************************************************************)
(* bboxAround on its own                                                   *)
(***************************************************************************)
\* centres: St. Louis, the origin, the southern and western hemispheres,
\* near the pole and the date line, and NaN (a geocode that did not parse)
BboxLats == { Some(StLouisLat), Some(0), Some(-33900), Some(89900), None }

BboxLons == { Some(StLouisLon), Some(0), Some(179900), None }

\* radii in km: omitted, zero, the options of the selectors, and a negative one
BboxRadii == { None, Some(0), Some(10), Some(25), Some(50), Some(100), Some(-10) }

InitBbox ==
  /\ variant = "none"
  /\ dynamicCourses = None
  /\ loading = FALSE
  /\ errorMsg = None
  /\ mapState = "none"
  /\ sourceCourses = COURSES
  /\ tasks = <<>>
  /\ lastFetched = None
  /\ lastDone = None
  /\ unhandled = FALSE
  /\ fetcher = "Bbox"
  /\ response \in {Some([lat |-> la, lon |-> lo, radiusKm |-> r]) :
                     la \in BboxLats, lo \in BboxLons, r \in BboxRadii}
  /\ outcome = None
  /\ query = <<>>
  /\ difficulty = "All"
  /\ onlyTopPicks = FALSE
  /\ sortBy = "rating"

\* bboxAround(lat, lon) or bboxAround(lat, lon, radiusKm)
BboxAroundCall ==
  /\ fetcher = "Bbox"
  /\ outcome = None
  /\ outcome' = Some(BboxAroundOr(Get(response).lat, Get(response).lon,
                                   Get(response).radiusKm))
  /\ UNCHANGED <<variant, dynamicCourses, loading, errorMsg, mapState, sourceCourses,
                 tasks, lastFetched, lastDone, unhandled, fetcher, response, filters>>

NextBbox == BboxAroundCall

SpecBbox == InitBbox /\ [][NextBbox]_vars

(***************************************************************************)
(* Properties                                                              *)
(***************************************************************************)
PairOf(c) == <<c.name, c.city>>

NoDuplicatePairs(items) ==
  \A i, j \in 1..Len(items) : i # j => PairOf(items[i]) # PairOf(items[j])

Active == {i \in 1..Len(tasks) : InFlight(tasks[i])}

\* C1: the list an Overpass-backed action stores in dynamicCourses (the list
\* fetchCoursesInBBox returned) never holds two entries with the same
\* (name, city) pair.
C1_NoDuplicatePairs ==
  variant \in Overpass =>
    /\ IsSome(dynamicCourses) => NoDuplicatePairs(Get(dynamicCourses))
    /\ IsSome(lastFetched) => NoDuplicatePairs(Get(lastFetched))

C1_Witness ==
  /\ variant \in Overpass
  /\ IsSome(dynamicCourses)
  /\ Len(Get(dynamicCourses)) = 2

RECURSIVE FirstOccurrences(_, _)
FirstOccurrences(items, seenPairs) ==
  IF Len(items) = 0 THEN <<>>
  ELSE IF PairOf(Head(items)) \in seenPairs
       THEN FirstOccurrences(Tail(items), seenPairs)
       ELSE <<Head(items)>> \o FirstOccurrences(Tail(items), seenPairs \cup {PairOf(Head(items))})

Normalized(f, resp) ==
  LET es == IF IsSome(resp.elements) THEN Get(resp.elements) ELSE <<>>
  IN  IF f = "App" THEN MapElements(es) ELSE DraftMapElements(es)

\* C2: the deduplicator returns its input in the original order with exactly
\* those items removed whose (name, city) pair equals the pair of an earlier
\* item; an item whose pair differs from every earlier pair is never dropped.
C2_DedupeByPair ==
  IsSome(outcome) /\ Get(outcome).ok =>
    Get(outcome).items = FirstOccurrences(Normalized(fetcher, Get(response)), {})

\* C3: the list fed to the result composer is the seed list COURSES exactly
\* when no fetched set exists or the last fetched set is empty, and is the
\* last fetched set otherwise; seed items are never mixed with fetched ones.
C3_SourceIsSeedOrFetched ==
  /\ dynamicCourses = lastFetched
  /\ (sourceCourses = COURSES) <=> (IsNone(lastFetched) \/ Len(Get(lastFetched)) = 0)
  /\ sourceCourses # COURSES => sourceCourses = Get(lastFetched)
  /\ sourceCourses # COURSES =>
       \A i \in 1..Len(sourceCourses) : \A k \in 1..Len(COURSES) :
         sourceCourses[i] # COURSES[k]

C3_Witness ==
  /\ IsSome(dynamicCourses)
  /\ Len(Get(dynamicCourses)) = 0
  /\ sourceCourses = COURSES

\* C4: in the fallback variants of loadNearby a failed location attempt
\* (geolocation refused or unavailable, or the first region query failed) is
\* followed by exactly one more region query, for the St. Louis box around
\* (38.627, -90.199); the error message is set only after that query has
\* failed too, and one invocation never issues more than two region queries.
C4_FallbackOnce ==
  /\ \A i \in 1..Len(tasks) :
       LET t == tasks[i] IN
       (HasFallback(variant) /\ t.kind = "loadNearby") =>
         /\ Len(t.queries) <= 2
         /\ IsNone(errorMsg)
         /\ (t.failures # <<>>) <=> (t.pc = "fallback")
         /\ t.pc = "fallback" =>
              /\ Len(t.failures) = 1
              /\ Len(t.queries) = (IF t.failures[1].at = "geo" THEN 1 ELSE 2)
              /\ Last(t.queries) =
                   BboxAround(Some(StLouisLat), Some(StLouisLon), t.radius)
  /\ (HasFallback(variant) /\ IsSome(lastDone) /\ Get(lastDone).kind = "loadNearby") =>
       LET d == Get(lastDone) IN
       /\ d.nqueries <= 2
       /\ d.failures # <<>> =>
            d.nqueries = (IF d.failures[1].at = "geo" THEN 1 ELSE 2)
       /\ IsSome(d.error) <=> (Len(d.failures) = 2 /\ d.failures[2].at = "fallback")
       /\ IsSome(d.error) => d.error = Some(MsgLoadFailed)

C4_Witness ==
  /\ HasFallback(variant)
  /\ IsSome(lastDone)
  /\ Get(lastDone).kind = "loadNearby"
  /\ Len(Get(lastDone).failures) = 2
  /\ Get(lastDone).failures[1].at = "fetch"
  /\ Get(lastDone).nqueries = 2
  /\ Get(lastDone).error = Some(MsgLoadFailed)

\* C5: in every variant, at no reachable state are two request sequences
\* outstanding at once.
C5_OneInFlight == Cardinality(Active) <= 1

\* the invocations that issue a region / provider query in this step
Issuing ==
  {j \in 1..Len(tasks') :
     Len(tasks'[j].queries) > (IF j <= Len(tasks) THEN Len(tasks[j].queries) ELSE 0)}

\* C6: a query in flight when another one is issued is not aborted (it stays
\* in flight, unchanged), so its response can arrive after, and replace, the
\* response of the query issued later.
C6_NoAbort ==
  [][\A i \in 1..Len(tasks) :
       (QueryInFlight(tasks[i]) /\ Issuing \ {i} # {}) => tasks'[i] = tasks[i]]_vars

C6_Witness ==
  /\ IsSome(lastDone)
  /\ Get(lastDone).overwroteNewer
  /\ dynamicCourses = lastFetched

\* C7: a region query answered with a non-success status, or failing at the
\* transport level, makes fetchCoursesInBBox fail with an error that carries
\* the status when there is one; nothing of such a response is returned.
C7_FailedResponseFails ==
  (IsSome(outcome) /\ (~Get(response).transport \/ ~Get(response).ok)) =>
    /\ ~Get(outcome).ok
    /\ Get(outcome).items = <<>>
    /\ Get(response).transport => Get(outcome).status = Get(response).status

\* C8 as claimed: every failure during an action ends with a non-null
\* errorMsg once the action has finished, and none escapes the handler.
C8_FailureShown ==
  /\ ~unhandled
  /\ (IsSome(lastDone) /\ Get(lastDone).failures # <<>>) => IsSome(Get(lastDone).error)

\* C8: every failure during an action is caught in the handler; the action
\* ends with a non-null errorMsg, except loadNearby of the fallback variants
\* when its fallback query succeeded, which ends with errorMsg null.
C8_FailureShownUnlessRecovered ==
  /\ ~unhandled
  /\ (IsSome(lastDone) /\ Get(lastDone).failures # <<>>) =>
       LET d == Get(lastDone)
           recovered == /\ HasFallback(variant)
                        /\ d.kind = "loadNearby"
                        /\ d.wrote
                        /\ Len(d.failures) = 1
       IN  /\ errorMsg = d.error
           /\ IsSome(d.error) <=> ~recovered

C8_Witness ==
  /\ IsSome(lastDone)
  /\ Get(lastDone).failures # <<>>
  /\ Get(lastDone).failures[1].type = "PermissionDenied"
  /\ IsSome(errorMsg)

\* what the geocoder returned: its candidate list when the request succeeded
Candidates(resp) ==
  IF variant = "Places"
  THEN IF resp.status = "OK" /\ IsSome(resp.res) THEN Some(Get(resp.res))
       ELSE IF resp.status = "ZERO_RESULTS" THEN Some(<<>>) ELSE None
  ELSE IF resp.transport /\ resp.ok /\ resp.json /\ resp.array THEN Some(resp.data)
       ELSE None

FirstCandidate(resp) ==
  LET c == Get(Candidates(resp))[1]
  IN  IF variant = "Places" THEN [lat |-> Some(c.lat), lon |-> Some(c.lon)]
      ELSE [lat |-> ParseFloat(c.lat), lon |-> ParseFloat(c.lon)]

GeocodedRight(geo, loc, nqueries, failures, settled, error) ==
  IsSome(geo) =>
    LET cs == Candidates(Get(geo)) IN
    /\ (IsSome(cs) /\ Len(Get(cs)) >= 1) => loc = Some(FirstCandidate(Get(geo)))
    /\ (IsSome(cs) /\ Len(Get(cs)) = 0) =>
         /\ settled
         /\ IsNone(loc)
         /\ nqueries = 0
         /\ failures = <<[type |-> "NotFound", at |-> "geocode"]>>
         /\ error = Some(IF variant = "Places" THEN MsgGeocodingFailed
                         ELSE MsgAreaNotFound)

\* C9: the geocode resolves to the latitude / longitude of the first
\* candidate whenever the geocoder returns at least one (later candidates
\* never matter), and signals not-found when it returns none.
C9_FirstCandidate ==
  /\ \A i \in 1..Len(tasks) :
       GeocodedRight(tasks[i].geo, tasks[i].loc, Len(tasks[i].queries),
                     tasks[i].failures, FALSE, errorMsg)
  /\ IsSome(lastDone) =>
       GeocodedRight(Get(lastDone).geo, Get(lastDone).loc, Get(lastDone).nqueries,
                     Get(lastDone).failures, TRUE, Get(lastDone).error)

C9_Witness ==
  \E i \in 1..Len(tasks) :
    /\ variant = "Nominatim"
    /\ IsSome(tasks[i].geo)
    /\ Len(Get(tasks[i].geo).data) = 2
    /\ Get(tasks[i].geo).data[1] # Get(tasks[i].geo).data[2]
    /\ tasks[i].pc = "fetch"
    /\ IsSome(Get(tasks[i].loc).lat)

\* C10: in searchArea the NotFound outcome ("Area not found") is reported
\* only when the geocoder yielded no candidates, and a geocode request
\* answered with a non-success status is reported as a NetworkError outcome,
\* distinct from NotFound.
C10_Taxonomy ==
  (/\ variant \in {"Nominatim", "Leaflet"}
   /\ IsSome(lastDone)
   /\ Get(lastDone).kind = "searchArea"
   /\ IsSome(Get(lastDone).geo)) =>
    LET d == Get(lastDone)
        r == Get(d.geo)
    IN  /\ d.error = Some(MsgAreaNotFound) => (r.transport /\ r.ok)
        /\ (r.transport /\ ~r.ok) => d.error = Some(MsgAreaFailed)

\* C11: in the Places-backed variant a search succeeds, its results (possibly
\* none) normalized and stored in dynamicCourses, exactly when the provider
\* status is OK or ZERO_RESULTS; with any other status errorMsg is set and
\* dynamicCourses is not written.
C11_PlacesStatus ==
  (variant = "Places" /\ IsSome(lastDone) /\ IsSome(Get(lastDone).answer)) =>
    LET d == Get(lastDone)
        r == Get(d.answer)
    IN  IF r.status \in {"OK", "ZERO_RESULTS"}
        THEN /\ d.wrote
             /\ d.failures = <<>>
             /\ dynamicCourses =
                  Some(MapPlaces(IF IsSome(r.res) THEN Get(r.res) ELSE <<>>))
        ELSE /\ ~d.wrote
             /\ Last(d.failures).at = "nearby"
             /\ d.error = Some(MsgNearbyFailed)
             /\ errorMsg = Some(MsgNearbyFailed)

C11_Witness ==
  /\ variant = "Places"
  /\ IsSome(lastDone)
  /\ IsSome(Get(lastDone).answer)
  /\ Get(Get(lastDone).answer).status = "ZERO_RESULTS"
  /\ IsNone(Get(Get(lastDone).answer).res)
  /\ dynamicCourses = Some(<<>>)

NoRetry(kind, geocodes, nqueries, failures) ==
  kind \in {"searchArea", "searchThisMap"} =>
    /\ geocodes <= 1
    /\ nqueries <= 1
    /\ kind = "searchThisMap" => geocodes = 0
    /\ Len(failures) <= 1
    /\ (failures # <<>> /\ failures[1].at = "geocode") => nqueries = 0

\* C12: a geocode failure or a viewport-search failure is never retried: one
\* invocation of searchArea issues at most one geocode request and at most
\* one region query, one invocation of searchThisMap at most one query, and a
\* failure ends the invocation.
C12_NoRetry ==
  /\ \A i \in 1..Len(tasks) :
       /\ NoRetry(tasks[i].kind, tasks[i].geocodes, Len(tasks[i].queries),
                  tasks[i].failures)
       /\ tasks[i].kind \in {"searchArea", "searchThisMap"} => tasks[i].failures = <<>>
  /\ IsSome(lastDone) =>
       NoRetry(Get(lastDone).kind, Get(lastDone).geocodes, Get(lastDone).nqueries,
               Get(lastDone).failures)

C12_Witness ==
  /\ IsSome(lastDone)
  /\ Get(lastDone).kind = "searchArea"
  /\ Get(lastDone).geocodes = 1
  /\ Get(lastDone).nqueries = 1
  /\ Get(lastDone).failures = <<[type |-> "NetworkError", at |-> "fetch"]>>
  /\ IsSome(errorMsg)

\* sub occurs in s: s is some text, then sub, then some text
Occurs(sub, s) ==
  \E u, v \in 0..Len(s) :
    /\ u + Len(sub) + v = Len(s)
    /\ \A k \in 1..Len(sub) : s[u + k] = sub[k]

InResults(i) == \E k \in 1..Len(ResultOrder) : ResultOrder[k] = i

TextMatch(c) == Occurs(ToLowerCase(query), ToLowerCase(c.name \o <<" ">> \o c.city))

NoFlags == difficulty = "All" /\ ~onlyTopPicks

\* C13 as claimed: an item passes the text filter exactly when the lower-cased
\* query is a substring of the lower-cased concatenation of name and city.
C13_TextFilter ==
  NoFlags =>
    \A i \in 1..Len(sourceCourses) :
      InResults(i) <=> Occurs(ToLowerCase(query),
                              ToLowerCase(sourceCourses[i].name \o sourceCourses[i].city))

\* C13: an item passes the text filter exactly when the lower-cased query is
\* a substring of the lower-cased text made of the name, one blank and the
\* city; the empty query matches every item, and on the seed list the query
\* "maryland" yields exactly Creve Coeur Lake Park DGC.
C13_TextFilterJoined ==
  /\ \A i \in 1..Len(sourceCourses) : InResults(i) => TextMatch(sourceCourses[i])
  /\ NoFlags => \A i \in 1..Len(sourceCourses) : TextMatch(sourceCourses[i]) => InResults(i)
  /\ (NoFlags /\ query = <<>>) => Len(Results) = Len(sourceCourses)
  /\ (NoFlags /\ sourceCourses = COURSES
        /\ query = <<"m", "a", "r", "y", "l", "a", "n", "d">>) => Results = <<COURSES[2]>>

C13_Witness ==
  /\ NoFlags
  /\ sourceCourses = COURSES
  /\ query = <<"c", " ", "w">>
  /\ Results = <<COURSES[1]>>

\* the source positions that match the query and satisfy both flags
Passing ==
  {i \in 1..Len(sourceCourses) :
     /\ TextMatch(sourceCourses[i])
     /\ (difficulty = "All" \/ sourceCourses[i].difficulty = difficulty)
     /\ (~onlyTopPicks \/ sourceCourses[i].topPick)}

\* C14: the output holds exactly the source items that match the text query
\* and satisfy both flags: 'All' excludes nothing, any other difficulty keeps
\* the items of that difficulty, onlyTopPicks keeps the top picks; on the seed
\* list onlyTopPicks alone yields Creve Coeur Lake Park DGC and Riverside DGC.
C14_Flags ==
  /\ \A i \in 1..Len(sourceCourses) : InResults(i) <=> i \in Passing
  /\ Len(Results) = Cardinality(Passing)
  /\ (sourceCourses = COURSES /\ query = <<>> /\ difficulty = "All" /\ onlyTopPicks) =>
       {Results[k] : k \in 1..Len(Results)} = {COURSES[1], COURSES[2]}

C14_Witness ==
  /\ sourceCourses = COURSES
  /\ onlyTopPicks
  /\ difficulty = "Beginner"
  /\ query = <<>>
  /\ Results = <<COURSES[1]>>

\* C15: the output is a permutation of the filtered items in the order of the
\* sort key: ratings never rise along it under 'rating', names never fall
\* (by localeCompare) under 'name'; the unfiltered seed list by rating is
\* Jefferson Barracks, Creve Coeur Lake Park, Logan University, Riverside,
\* Carrollton Park.
C15_Sorted ==
  /\ {ResultOrder[k] : k \in 1..Len(ResultOrder)} = Passing
  /\ \A k, l \in 1..Len(ResultOrder) : k # l => ResultOrder[k] # ResultOrder[l]
  /\ sortBy = "rating" =>
       \A k \in 1..(Len(Results) - 1) : Results[k].rating >= Results[k + 1].rating
  /\ sortBy = "name" =>
       \A k \in 1..(Len(Results) - 1) :
         LocaleCompare(Results[k].name, Results[k + 1].name) <= 0
  /\ (sourceCourses = COURSES /\ query = <<>> /\ NoFlags /\ sortBy = "rating") =>
       Results = <<COURSES[3], COURSES[2], COURSES[4], COURSES[1], COURSES[5]>>

C15_Witness ==
  /\ sourceCourses = COURSES
  /\ sortBy = "name"
  /\ Results = <<COURSES[5], COURSES[2], COURSES[3], COURSES[4], COURSES[1]>>

\* C16: under 'rating' two items of equal rating keep the relative order they
\* have in the source list; a fetched Overpass set, all of rating 4.5, is
\* shown in fetch order.
C16_Stable ==
  sortBy = "rating" =>
    /\ \A k, l \in 1..Len(ResultOrder) :
         (k < l /\ Results[k].rating = Results[l].rating) => ResultOrder[k] < ResultOrder[l]
    /\ (\A i \in 1..Len(sourceCourses) : sourceCourses[i].rating = DefaultRating) =>
         \A k, l \in 1..Len(ResultOrder) : k < l => ResultOrder[k] < ResultOrder[l]

C16_Witness ==
  /\ sortBy = "rating"
  /\ IsSome(dynamicCourses)
  /\ \A i \in 1..Len(sourceCourses) : sourceCourses[i].rating = DefaultRating
  /\ difficulty = "Intermediate"
  /\ Len(Results) >= 2
  /\ LocaleCompare(Results[1].name, Results[2].name) > 0

\* C17: composing has no side effect: after any sequence of query,
\* difficulty, top-pick and sort changes the source list (COURSES or the
\* stored dynamicCourses) holds the same items in the same order as before,
\* and an empty source or an empty match gives the empty result.
C17_NoSideEffect ==
  /\ dynamicCourses = lastFetched
  /\ sourceCourses = (IF IsSome(lastFetched) /\ Len(Get(lastFetched)) > 0
                      THEN Get(lastFetched) ELSE COURSES)
  /\ Compose(sourceCourses, query, difficulty, onlyTopPicks, sortBy).source = sourceCourses
  /\ Passing = {} => Results = <<>>
  /\ Compose(<<>>, query, difficulty, onlyTopPicks, sortBy).results = <<>>

C17_Witness ==
  /\ query = <<"z", "z">>
  /\ sortBy = "name"
  /\ onlyTopPicks
  /\ IsSome(dynamicCourses)
  /\ Len(Get(dynamicCourses)) >= 2
  /\ Results = <<>>

\* the holes tag of the raw record being normalized
HolesTag == Tag(Get(response).el, "holes")

\* s is a decimal numeral: an optional sign, digits, at most one point
IsNumeral(s) ==
  LET b == IF Len(s) > 0 /\ s[1] \in {"-", "+"} THEN Tail(s) ELSE s
  IN  /\ \A i \in 1..Len(b) : IsDigit(b[i]) \/ b[i] = "."
      /\ Cardinality({i \in 1..Len(b) : b[i] = "."}) <= 1
      /\ \E i \in 1..Len(b) : IsDigit(b[i])

C19_HolesPositive ==
  IsSome(outcome) => (Get(outcome).holes > 0 /\ Get(outcome).holes % Whole(1) = 0)

\* the name of the raw record being normalized
RawName ==
  IF fetcher = "Places" THEN Get(response).el.name ELSE Tag(Get(response).el, "name")

\* C20: a raw record without a name (no tags, tags without name, or an empty
\* name) is given the literal placeholder name of its version; no normalized
\* CourseItem has an empty name.
C20_NamePlaceholder ==
  IsSome(outcome) =>
    /\ (IsNone(RawName) \/ Get(RawName) = <<>>) =>
         Get(outcome).name = (IF fetcher = "Draft" THEN DraftDefaultName ELSE DefaultName)
    /\ (IsSome(RawName) /\ Get(RawName) # <<>>) => Get(outcome).name = Get(RawName)
    /\ Len(Get(outcome).name) > 0

C20_Witness ==
  /\ fetcher = "App"
  /\ IsSome(outcome)
  /\ IsSome(Get(response).el.tags)
  /\ RawName = Some(<<>>)
  /\ Get(outcome).name = DefaultName

\* the coordinates the raw record being normalized carries, directly or
\* through its center
RawCoords ==
  LET el == Get(response).el
  IN  IF fetcher = "Places"
      THEN [lat |-> IF IsSome(el.geometry) THEN Some(Get(el.geometry).lat) ELSE None,
            lon |-> IF IsSome(el.geometry) THEN Some(Get(el.geometry).lon) ELSE None]
      ELSE [lat |-> IF IsSome(el.lat) THEN el.lat
                    ELSE IF IsSome(el.center) THEN Get(el.center).lat ELSE None,
            lon |-> IF IsSome(el.lon) THEN el.lon
                    ELSE IF IsSome(el.center) THEN Get(el.center).lon ELSE None]

\* C21: the mapUrl of a normalized CourseItem is the coordinate link to
\* (lat, lon) exactly when the raw record carried coordinates, and the
\* text-search link for the encoded "name, city" exactly when it carried
\* none; no other form is produced.
C21_MapUrl ==
  IsSome(outcome) =>
    LET c == Get(outcome)
        carried == IsSome(RawCoords.lat) /\ IsSome(RawCoords.lon)
    IN  /\ c.mapUrl.kind \in {"coords", "search"}
        /\ c.mapUrl.kind = "coords" <=> carried
        /\ carried => c.mapUrl = CoordsUrl(RawCoords.lat, RawCoords.lon)
        /\ ~carried => c.mapUrl = SearchUrl(c.name, c.city)

\* C22: within the list one fetch returns no two CourseItems have the same
\* id, whatever the response.
C22_UniqueIds ==
  (IsSome(outcome) /\ Get(outcome).ok) =>
    LET items == Get(outcome).items
    IN  \A i, j \in 1..Len(items) : i # j => items[i].id # items[j].id

\* C25: the deduplicator applied to the list a fetch returned (its own
\* output) gives that list back, same items in the same order.
C25_DedupeIdempotent ==
  (IsSome(outcome) /\ Get(outcome).ok) =>
    /\ Dedupe(Get(outcome).items) = Get(outcome).items
    /\ Dedupe(Dedupe(Normalized(fetcher, Get(response))))
         = Dedupe(Normalized(fetcher, Get(response)))

C25_Witness ==
  /\ IsSome(outcome)
  /\ Get(outcome).ok
  /\ Len(Normalized(fetcher, Get(response))) = 3
  /\ Len(Get(outcome).items) = 2

\* a tag that is there and not empty
Filled(o) == IsSome(o) /\ Get(o) # <<>>

\* C23: normalization takes the city from the first non-empty of the tags
\* addr:city, city, addr_city, in that order, and gives "Unknown" when none
\* of them is filled; an earlier tag wins over a later one.
C23_CityOrder ==
  (fetcher = "App" /\ IsSome(outcome)) =>
    LET el == Get(response).el
        a == Tag(el, "addrcity")
        c == Tag(el, "city")
        u == Tag(el, "addr_city")
    IN  Get(outcome).city = (IF Filled(a) THEN Get(a)
                             ELSE IF Filled(c) THEN Get(c)
                             ELSE IF Filled(u) THEN Get(u)
                             ELSE UnknownCity)

C23_Witness ==
  /\ fetcher = "App"
  /\ IsSome(outcome)
  /\ Tag(Get(response).el, "addrcity") = Some(<<>>)
  /\ Tag(Get(response).el, "city") = Some(<<"U", "n">>)
  /\ Tag(Get(response).el, "addr_city") = Some(<<"S", "t">>)
  /\ Get(outcome).city = <<"U", "n">>

IsDegreesOf(d, r) == KmPerDegree * d <= r * 1000 /\ r * 1000 < KmPerDegree * (d + 1)

\* C26: bboxAround(lat, lon, r) gives south = lat - r/111, north = lat +
\* r/111, west = lon - r/111, east = lon + r/111, with r = 50 when omitted;
\* the box is centred on (lat, lon), south <= north and west <= east for
\* r >= 0, and bboxAround(38.627, -90.199, 50) is about (38.177, 39.077,
\* -90.649, -89.749).
C26_Bbox ==
  (fetcher = "Bbox" /\ IsSome(outcome)) =>
    LET in == Get(response)
        b == Get(outcome)
        r == IF IsSome(in.radiusKm) THEN Get(in.radiusKm) ELSE 50
    IN  /\ IsSome(in.lat) =>
              /\ IsSome(b.south) /\ IsSome(b.north)
              /\ IsDegreesOf(Get(in.lat) - Get(b.south), r)
              /\ Get(b.north) - Get(in.lat) = Get(in.lat) - Get(b.south)
              /\ r >= 0 => Get(b.south) <= Get(b.north)
        /\ IsSome(in.lon) =>
              /\ IsSome(b.west) /\ IsSome(b.east)
              /\ IsDegreesOf(Get(in.lon) - Get(b.west), r)
              /\ Get(b.east) - Get(in.lon) = Get(in.lon) - Get(b.west)
              /\ r >= 0 => Get(b.west) <= Get(b.east)
        /\ IsNone(in.lat) => (IsNone(b.south) /\ IsNone(b.north))
        /\ IsNone(in.lon) => (IsNone(b.west) /\ IsNone(b.east))
        /\ (in.lat = Some(38627) /\ in.lon = Some(-90199) /\ r = 50) =>
              b = [south |-> Some(38177), north |-> Some(39077),
                   west |-> Some(-90649), east |-> Some(-89749)]

C26_Witness ==
  /\ fetcher = "Bbox"
  /\ IsSome(outcome)
  /\ Get(response) = [lat |-> Some(StLouisLat), lon |-> Some(StLouisLon), radiusKm |-> None]
  /\ Get(outcome).south = Some(38177)
  /\ Get(outcome).east = Some(-89749)

\* the raw elements of the response the last finished invocation stored
StoredRaw ==
  LET r == Get(Get(lastDone).answer)
  IN  IF variant = "Places" THEN (IF IsSome(r.res) THEN Get(r.res) ELSE <<>>)
      ELSE (IF IsSome(r.elements) THEN Get(r.elements) ELSE <<>>)

\* each raw element normalized on its own, in response order
StoredNormalized ==
  [i \in 1..Len(StoredRaw) |->
     IF variant = "Places" THEN PlaceToCourse(StoredRaw[i], i - 1)
     ELSE NormalizeElement(StoredRaw[i], i - 1)]

Stored == IsSome(lastDone) /\ Get(lastDone).wrote /\ IsSome(Get(lastDone).answer)

\* the positions whose name__city key no earlier position has
FirstOfKey ==
  {i \in 1..Len(StoredNormalized) :
     \A j \in 1..(i - 1) : DedupeKey(StoredNormalized[j]) # DedupeKey(StoredNormalized[i])}

\* C27 as claimed: the list a fetcher returns holds one normalized item per
\* raw element of the response, in response order.
C27_NoFiltering ==
  Stored => Get(dynamicCourses) = StoredNormalized

\* C27: the Places fetcher returns one normalized item per raw element, in
\* response order; the Overpass fetcher returns, in response order, the
\* normalized items whose name__city key no earlier element has, so its
\* list is never longer than the response and may be shorter.
C27_NoFilteringButDedupe ==
  Stored =>
    LET items == Get(dynamicCourses) IN
    IF variant = "Places" THEN items = StoredNormalized
    ELSE /\ Len(items) = Cardinality(FirstOfKey)
         /\ \A k \in 1..Len(items) :
              items[k] = StoredNormalized[CHOOSE i \in FirstOfKey :
                                            Cardinality({j \in FirstOfKey : j <= i}) = k]

C27_Witness ==
  /\ Stored
  /\ variant \in Overpass
  /\ Len(StoredRaw) = 2
  /\ Len(Get(dynamicCourses)) = 1

\* C28: once a search action has set loading to true, loading returns to
\* false in the end, whether the action succeeds, fails or returns early
\* (every pending request being answered), and loading is never true when
\* no action is under way.
C28_LoadingEnds ==
  /\ loading ~> ~loading
  /\ [](Active = {} => ~loading)

C28_Witness ==
  /\ loading
  /\ \E i \in 1..Len(tasks) : tasks[i].kind = "searchArea" /\ tasks[i].pc = "geocode"

\* the list the fetch answered by resp returns
FetchedList(resp) ==
  IF variant = "Places" THEN PlacesCallback(resp).items ELSE FetchCoursesInBBox(resp).items

C30_NoSeedUnderFilters ==
  (fetcher = "App" /\ IsSome(dynamicCourses) /\ Len(Get(dynamicCourses)) > 0) =>
    /\ sourceCourses = Get(dynamicCourses)
    /\ (onlyTopPicks \/ difficulty \in {"Beginner", "Advanced"}) => Results = <<>>
    /\ \A k \in 1..Len(Results) : \A n \in 1..Len(COURSES) : Results[k] # COURSES[n]

C30_Witness ==
  /\ fetcher = "App"
  /\ IsSome(dynamicCourses)
  /\ Len(Get(dynamicCourses)) >= 2
  /\ onlyTopPicks
  /\ difficulty = "Advanced"
  /\ query = <<>>
  /\ Results = <<>>

====
